---- MODULE Spec2Model ----
(***************************************************************************)
(* Flashcard viewer (Milo): the Model / Event / Reducer / Scheduler core   *)
(* of three of the repository's rewrites.                                  *)
(*                                                                         *)
(*   raylib_main.py    immediate-mode game loop (one frame per iteration)  *)
(*   trash/ash2.py     asyncio reducer task + cancelable flip timer task   *)
(*   trash/main_v3.py  Controller + AsyncEventBus + IntervalScheduler      *)
(*                                                                         *)
(* Each program has its own variables and its own specification; the       *)
(* variables of the programs a specification does not run stay parked.     *)
(***************************************************************************)
EXTENDS Integers, Sequences, FiniteSets, TLC

\* ------------------------------------------------------------------ bounds
NumPairs == 2
MaxCalls == 3
MaxRunning == 2
MaxNext == 1
MaxDt == 3
MaxTime == 7
MaxBus == 2
MaxRows == 3
MaxRenders == 5
MaxChange == 4
MaxMsgs == 5

\* ------------------------------------------------------- domain values
\* WordPair(fr, en): a frozen dataclass, equal by content.  Words are opaque
\* tokens; the i-th row of the word list is <<"fr", i>> / <<"en", i>>.
WordPair(i) == [fr |-> <<"fr", i>>, en |-> <<"en", i>>]

\* The tuple returned by load_word_pairs, fixed for the process lifetime.
word_pairs == [i \in 1..NumPairs |-> WordPair(i)]

\* random.choice(word_pairs): any element of the tuple.
Choices == {word_pairs[i] : i \in DOMAIN word_pairs}

\* Model(current, showing_back=False)
Model(current, showing_back) ==
    [current |-> current, showing_back |-> showing_back]

Models == {Model(c, b) : c \in Choices, b \in BOOLEAN}

\* ------------------------------------------------- pure transitions
\* A flip that toggles the face (the slip the idempotence claim guards against).
flip_toggles(model) == [model EXCEPT !.showing_back = ~model.showing_back]

\* raylib_main.py: def flip(model)
flip(model) ==
    IF model.showing_back
        THEN model
        ELSE [model EXCEPT !.showing_back = TRUE]

\* trash/ash2.py: def flip(model)
flip_ash2(model) ==
    IF model.showing_back
        THEN model
        ELSE [model EXCEPT !.showing_back = TRUE]

\* A next_card that keeps the face that was showing.
next_card_keeps_face(model, chosen) == [model EXCEPT !.current = chosen]

\* raylib_main.py: def next_card(model, chosen)
next_card(model, chosen) ==
    [model EXCEPT !.current = chosen, !.showing_back = FALSE]

\* trash/ash2.py: def next_card(model, chosen)
next_card_ash2(model, chosen) ==
    [model EXCEPT !.current = chosen, !.showing_back = FALSE]

\* ------------------------------------------------ trash/ash2.py helpers
\* What _refresh_view assigns to card_view.image: render(model) builds the two
\* images of model.current and the face is picked by model.showing_back.
refresh_view(model) ==
    [pair |-> model.current,
     side |-> IF model.showing_back THEN "back" ELSE "front"]

\* A reducer that lets an AUTO_FLIP toggle a card that already shows its back.
reduce_ash2_toggles(model, event, chosen) ==
    IF event = "NEXT"
        THEN next_card_ash2(model, chosen)
        ELSE flip_toggles(model)

\* A reducer that ignores AUTO_FLIP events.
reduce_ash2_drops_flip(model, event, chosen) ==
    IF event = "NEXT" THEN next_card_ash2(model, chosen) ELSE model

\* Milo._run_loop, the model update of one event (lines 329-336).
reduce_ash2(model, event, chosen) ==
    IF event = "NEXT"
        THEN next_card_ash2(model, chosen)
        ELSE IF event = "AUTO_FLIP" /\ ~model.showing_back
            THEN flip_ash2(model)
            ELSE model

\* asyncio.Task.cancel() on one task record: a done task is left alone; a task
\* suspended on a future (its sleep, or the queue's getter) has that future
\* cancelled and is scheduled to resume with CancelledError; a task whose step
\* is already scheduled gets the same error at its next step.
task_cancel(t) ==
    IF t.st = "done"
        THEN t
        ELSE [t EXCEPT !.cancel = TRUE,
                       !.st = IF @ \in {"sleeping", "waiting"} THEN "woken" ELSE @]

\* A _cancel_flip_timer that forgets to cancel.
cancel_flip_timer_noop(tasks, ft) == tasks

\* A _cancel_flip_timer that cancels without testing t.done().
cancel_flip_timer_unguarded(tasks, ft) ==
    IF ft # 0
        THEN [tasks EXCEPT ![ft].cancel = TRUE,
                           ![ft].st = IF @ \in {"sleeping", "waiting"}
                                         THEN "woken" ELSE @]
        ELSE tasks

\* Milo._cancel_flip_timer: t = self.flip_task; if t and not t.done(): t.cancel()
cancel_flip_timer(tasks, ft) ==
    IF ft # 0 /\ tasks[ft].st # "done"
        THEN [tasks EXCEPT ![ft] = task_cancel(@)]
        ELSE tasks

\* Bookkeeping only: remembers that a timer was still pending (not done) when
\* the next one was armed.
mark_replaced(tasks, ft) ==
    IF ft # 0 /\ tasks[ft].st # "done"
        THEN [tasks EXCEPT ![ft].replaced = TRUE]
        ELSE tasks

\* loop.create_task(_later()): the task up to and including its wait in
\* `await asyncio.sleep(delay_s)`.  (Before its first step and during the
\* sleep a cancel has the same outcome: the task ends without a put.)
NewTimer == [st |-> "sleeping", cancel |-> FALSE, puts |-> 0, replaced |-> FALSE]

\* A _start_flip_timer that keeps a timer that is still pending instead of
\* restarting the delay.
start_flip_timer_keep_pending(tasks, ft) ==
    IF ft # 0 /\ tasks[ft].st # "done"
        THEN tasks
        ELSE Append(tasks, NewTimer)

\* A _start_flip_timer that arms the new timer without cancelling the old one.
start_flip_timer_no_cancel(tasks, ft) ==
    Append(mark_replaced(tasks, ft), NewTimer)

\* Milo._start_flip_timer: cancel the timer in self.flip_task, create the new
\* task; self.flip_task becomes the index of the appended task.
start_flip_timer(tasks, ft) ==
    Append(cancel_flip_timer(mark_replaced(tasks, ft), ft), NewTimer)

\* loop.create_task(self._run_loop())
NewReducer == [st |-> "created", cancel |-> FALSE]

\* asyncio.Queue._wakeup_next(self._getters): the first waiting getter gets its
\* result and its task is scheduled.
wakeup_next(reducers) ==
    LET waiting == {r \in DOMAIN reducers : reducers[r].st = "waiting"}
    IN  IF waiting = {}
            THEN reducers
            ELSE LET r == CHOOSE x \in waiting : \A y \in waiting : x <= y
                 IN  [reducers EXCEPT ![r].st = "woken"]

VARIABLES
    prog,       \* which program this behaviour runs
    \* --- the pure functions applied in isolation
    p_file,     \* which file's transition functions are applied
    p_in,       \* the model the calls started from
    p_calls,    \* the calls applied so far, oldest first
    p_arg,      \* the `chosen` argument of the last next_card call
    p_prev,     \* the model the last call was applied to
    p_out,      \* the model the last call returned
    \* --- trash/ash2.py, class Milo
    a_model,        \* self.model
    a_image,        \* self.card_view.image
    event_queue,    \* self.event_queue, oldest first; src names the producer
    flip_task,      \* self.flip_task: index into a_timers, 0 for None
    reducer_task,   \* self.reducer_task: index into a_reducers, 0 for None
    a_timers,       \* every _later() task created so far
    a_reducers,     \* every _run_loop() task created so far
    a_cur,          \* the reducer task executing between two awaits, else 0
    a_closed,       \* on_close has run
    a_running,      \* number of on_running calls
    a_init,         \* the model startup() created
    a_hist,         \* every event put on event_queue, in put order
    a_views,        \* the model shown by each _refresh_view call, in order
    \* --- raylib_main.py, main()
    r_model,            \* model
    events,             \* events (the deque), oldest first
    time_since_next,    \* time_since_next, in seconds
    r_pc,               \* where main is: "start", "init_window",
                        \* "load_assets", "create_model", "poll" (top of the
                        \* frame loop), "reduce" (in `while events`),
                        \* "closed", "exit" (SystemExit raised)
    r_drawn,            \* what the last finished frame drew
    r_frame,            \* the frame in progress: the model it started
                        \* from, the events it enqueued and the events it
                        \* has processed, each with the pair chosen for it
    r_flips,            \* AUTO_FLIP events enqueued since the last
                        \* processed NEXT (or since startup)
    r_store,            \* word_pairs, what load_word_pairs returned to main
    r_boot,             \* what main has done outside the frame loop: window
                        \* opened, textures and fonts loaded, Model created,
                        \* and the exit status and message once it has exited
    \* --- trash/main_v3.py
    auto_flip,          \* FlipPolicy.auto_flip
    current,            \* Controller.current
    showing_back,       \* Controller.showing_back
    vp_showing_back,    \* TogaViewPort._showing_back
    vp_views,           \* the pair front_view / back_view were built from
    slot,               \* the view in the card slot: a pair and a side
    cache,              \* CardRenderer._cache: the pairs it holds images for
    bus_q,              \* AsyncEventBus._q, oldest first; src names the publisher
    pub_tasks,          \* publish() tasks the buttons created, not yet run
    pump,               \* the pump() task: created, waiting, woken, running
    sched,              \* the IntervalScheduler.run() task: created, sleeping, done
    sched_rem,          \* seconds left of the scheduler's current sleep
    v_since,            \* seconds since the last NEXT was handled (or startup),
                        \* counted up to interval_sec
    v_hadNext,          \* a NEXT has been handled
    v_last,             \* the event the Controller handled last, and the
                        \* renderer.render calls made while handling it
    v_corpus,           \* corpus, what load_csv_word_pairs returned to startup
    v_boot,             \* how far Milo.startup has come, and what it has done
    \* --- the CSV loaders applied in isolation
    l_file,     \* which file's loader is applied
    l_rows,     \* the rows the csv reader yields, in file order
    l_out,      \* the tuple the loader returned
    l_done,     \* the loader has returned
    \* --- the card renderers applied in isolation
    c_file,         \* which file's renderer is called
    c_cache,        \* CardRenderer._cache: entries of key and CardImages
    c_requests,     \* the pair of each render call so far, in call order
    c_returned,     \* what each of those calls returned
    c_computed,     \* how many CardImages have been drawn so far
    c_theme,    \* the texts drawn on the theme's base_front and base_back images
    \* --- trash/working_main.py, class Milo
    w_current,      \* self.current_word_pair: index of the row in the
                    \* module's word_pairs list, 0 for its leading []
    w_card,         \* self.card: the number of the pair of ImageViews
    w_body,         \* self.body.children[0]: a card's front or back view
    w_tasks,        \* every call_flip_card task created so far
    \* --- trash.py, class Milo
    t_model,        \* self.model
    t_image,        \* self.card_view.image
    t_events,       \* self.events (the asyncio.Queue), oldest first
    \* --- update of trash.py applied in isolation
    u_model,    \* the model passed to update
    u_msg,      \* the message passed to update
    u_outs      \* what the calls update(u_model, u_msg, word_pairs) returned

pureVars == <<p_file, p_in, p_calls, p_arg, p_prev, p_out>>

ashVars == <<a_model, a_image, event_queue, flip_task, reducer_task, a_timers,
             a_reducers, a_cur, a_closed, a_running, a_init, a_hist, a_views>>

rayVars == <<r_model, events, time_since_next, r_pc, r_drawn, r_frame, r_flips,
             r_store, r_boot>>

v3Vars == <<auto_flip, current, showing_back, vp_showing_back, vp_views, slot,
            cache, bus_q, pub_tasks, pump, sched, sched_rem, v_since,
            v_hadNext, v_last, v_corpus, v_boot>>

loadVars == <<l_file, l_rows, l_out, l_done>>

renderVars == <<c_file, c_cache, c_requests, c_returned, c_computed, c_theme>>

workVars == <<w_current, w_card, w_body, w_tasks>>

trashVars == <<t_model, t_image, t_events>>

updVars == <<u_model, u_msg, u_outs>>

vars == <<prog, pureVars, ashVars, rayVars, v3Vars, loadVars, renderVars,
          workVars, trashVars, updVars>>

\* What the steps of one program leave alone: the other programs' variables.
notPure == <<prog, ashVars, rayVars, v3Vars, loadVars, renderVars,
    workVars, trashVars,
    updVars>>

notAsh == <<prog, pureVars, rayVars, v3Vars, loadVars, renderVars,
    workVars, trashVars,
    updVars>>

notRay == <<prog, pureVars, ashVars, v3Vars, loadVars, renderVars,
    workVars, trashVars,
    updVars>>

notV3 == <<prog, pureVars, ashVars, rayVars, loadVars, renderVars,
    workVars, trashVars,
    updVars>>

notLoad == <<prog, pureVars, ashVars, rayVars, v3Vars, renderVars,
    workVars, trashVars,
    updVars>>

notRender == <<prog, pureVars, ashVars, rayVars, v3Vars, loadVars,
    workVars, trashVars,
    updVars>>

\* ---------------------------------------------------------- parking
\* The variables of a program that a behaviour does not run.
ParkPure ==
    /\ p_file = "none"
    /\ p_in = Model(word_pairs[1], FALSE)
    /\ p_calls = <<>>
    /\ p_arg = word_pairs[1]
    /\ p_prev = Model(word_pairs[1], FALSE)
    /\ p_out = Model(word_pairs[1], FALSE)

ParkAsh ==
    /\ a_model = Model(word_pairs[1], FALSE)
    /\ a_image = refresh_view(Model(word_pairs[1], FALSE))
    /\ event_queue = <<>>
    /\ flip_task = 0
    /\ reducer_task = 0
    /\ a_timers = <<>>
    /\ a_reducers = <<>>
    /\ a_cur = 0
    /\ a_closed = FALSE
    /\ a_running = 0
    /\ a_init = Model(word_pairs[1], FALSE)
    /\ a_hist = <<>>
    /\ a_views = <<>>

\* main before its first statement: nothing opened, loaded or created, and
\* no exit yet.
NotStarted ==
    [window |-> FALSE, assets |-> FALSE, model |-> FALSE, exited |-> FALSE,
     status |-> 0, diag |-> ""]

\* No frame has begun since `model` was created.
NoFrame(model) == [start |-> model, enq |-> <<>>, log |-> <<>>]

ParkRay ==
    /\ r_model = Model(word_pairs[1], FALSE)
    /\ events = <<>>
    /\ time_since_next = 0
    /\ r_pc = "parked"
    /\ r_drawn = [pair |-> "none", side |-> "none"]
    /\ r_frame = NoFrame(Model(word_pairs[1], FALSE))
    /\ r_flips = 0
    /\ r_store = <<>>
    /\ r_boot = NotStarted

ParkLoad ==
    /\ l_file = "none"
    /\ l_rows = <<>>
    /\ l_out = <<>>
    /\ l_done = FALSE

\* The base images as Image.open returned them: nothing is drawn on them.
LoadedTheme == [base_front |-> <<>>, base_back |-> <<>>]

ParkRender ==
    /\ c_file = "none"
    /\ c_cache = {}
    /\ c_requests = <<>>
    /\ c_returned = <<>>
    /\ c_computed = 0
    /\ c_theme = LoadedTheme

ParkWork ==
    /\ w_current = 0
    /\ w_card = 0
    /\ w_body = [card |-> 0, side |-> "front"]
    /\ w_tasks = <<>>

ParkTrash ==
    /\ t_model = Model(word_pairs[1], FALSE)
    /\ t_image = refresh_view(Model(word_pairs[1], FALSE))
    /\ t_events = <<>>

ParkUpd ==
    /\ u_model = Model(word_pairs[1], FALSE)
    /\ u_msg = "none"
    /\ u_outs = <<>>

\* Milo.startup is entered and has done nothing yet.
StartupEntered ==
    [pc |-> "start", window |-> FALSE, controller |-> FALSE, tasks |-> FALSE,
     buttons |-> FALSE, error |-> ""]

\* Milo.startup has returned.
StartupDone ==
    [pc |-> "running", window |-> TRUE, controller |-> TRUE, tasks |-> TRUE,
     buttons |-> TRUE, error |-> ""]

\* What the Controller has handled before any event: its own construction.
Constructed == [ev |-> "none", src |-> "construction"]

ParkV3 ==
    /\ auto_flip = FALSE
    /\ current = word_pairs[1]
    /\ showing_back = FALSE
    /\ vp_showing_back = FALSE
    /\ vp_views = word_pairs[1]
    /\ slot = [pair |-> word_pairs[1], side |-> "front"]
    /\ cache = {}
    /\ bus_q = <<>>
    /\ pub_tasks = <<>>
    /\ pump = "parked"
    /\ sched = "parked"
    /\ sched_rem = 0
    /\ v_since = 0
    /\ v_hadNext = FALSE
    /\ v_last = [evt |-> Constructed, renders |-> 0]
    /\ v_corpus = <<>>
    /\ v_boot = StartupEntered

\* ------------------------------------------- the pure functions, applied
InitPure ==
    /\ prog = "pure"
    /\ p_file \in {"raylib_main", "ash2"}
    /\ p_in \in Models
    /\ p_calls = <<>>
    /\ p_arg = p_in.current
    /\ p_prev = p_in
    /\ p_out = p_in
    /\ ParkAsh
    /\ ParkRay
    /\ ParkV3
    /\ ParkLoad
    /\ ParkRender
    /\ ParkWork
    /\ ParkTrash
    /\ ParkUpd

CallFlip ==
    /\ prog = "pure"
    /\ Len(p_calls) < MaxCalls
    /\ p_calls' = Append(p_calls, "flip")
    /\ p_prev' = p_out
    /\ p_out' = IF p_file = "raylib_main" THEN flip(p_out) ELSE flip_ash2(p_out)
    /\ UNCHANGED <<notPure, p_file, p_in, p_arg>>

CallNextCard ==
    /\ prog = "pure"
    /\ Len(p_calls) < MaxCalls
    /\ \E chosen \in Choices :
        /\ p_arg' = chosen
        /\ p_out' = IF p_file = "raylib_main"
                        THEN next_card(p_out, chosen)
                        ELSE next_card_ash2(p_out, chosen)
    /\ p_calls' = Append(p_calls, "next_card")
    /\ p_prev' = p_out
    /\ UNCHANGED <<notPure, p_file, p_in>>

NextPure == CallFlip \/ CallNextCard

SpecPure == InitPure /\ [][NextPure]_vars

\* --------------------------------------------------- trash/ash2.py, Milo
\* The state startup() leaves: a random first card shown on its front, an
\* empty queue, no task handles.
InitAsh ==
    /\ prog = "ash2"
    /\ \E c \in Choices :
        /\ a_model = Model(c, FALSE)
        /\ a_init = Model(c, FALSE)
        /\ a_image = [pair |-> c, side |-> "front"]
    /\ event_queue = <<>>
    /\ flip_task = 0
    /\ reducer_task = 0
    /\ a_timers = <<>>
    /\ a_reducers = <<>>
    /\ a_cur = 0
    /\ a_closed = FALSE
    /\ a_running = 0
    /\ a_hist = <<>>
    /\ a_views = <<>>
    /\ ParkPure
    /\ ParkRay
    /\ ParkV3
    /\ ParkLoad
    /\ ParkRender
    /\ ParkWork
    /\ ParkTrash
    /\ ParkUpd

CountEv(seq, e) == Cardinality({i \in DOMAIN seq : seq[i] = e})

\* An on_running that creates a reducer task at every call.
reducer_needed_always(reducers, rt) == TRUE

\* self.reducer_task is None or self.reducer_task.done()
reducer_needed(reducers, rt) == rt = 0 \/ reducers[rt].st = "done"

\* Milo.on_running: create the reducer task unless one is alive, then arm the
\* first flip timer.
OnRunning ==
    /\ prog = "ash2"
    /\ a_cur = 0
    /\ ~a_closed
    /\ a_running < MaxRunning
    /\ a_running' = a_running + 1
    /\ IF reducer_needed(a_reducers, reducer_task)
         THEN /\ a_reducers' = Append(a_reducers, NewReducer)
              /\ reducer_task' = Len(a_reducers) + 1
         ELSE UNCHANGED <<a_reducers, reducer_task>>
    /\ a_timers' = start_flip_timer(a_timers, flip_task)
    /\ flip_task' = Len(a_timers')
    /\ UNCHANGED <<notAsh, a_model, a_image, event_queue, a_cur,
                   a_closed, a_init, a_hist, a_views>>

\* A queue of maxsize 1: a put on a full queue adds nothing.
queue_put_full(q, item) == IF Len(q) >= 1 THEN q ELSE Append(q, item)

\* asyncio.Queue() has no maxsize: put_nowait and put always add the item.
queue_put(q, item) == Append(q, item)

\* Milo.on_next: a button press; event_queue.put_nowait(Event.NEXT).
OnNext ==
    /\ prog = "ash2"
    /\ a_cur = 0
    /\ ~a_closed
    /\ a_running > 0
    /\ CountEv(a_hist, "NEXT") < MaxNext
    /\ event_queue' = queue_put(event_queue, [ev |-> "NEXT", src |-> 0])
    /\ a_hist' = Append(a_hist, "NEXT")
    /\ a_reducers' = wakeup_next(a_reducers)
    /\ UNCHANGED <<notAsh, a_model, a_image, flip_task, reducer_task,
                   a_timers, a_cur, a_closed, a_running, a_init, a_views>>

\* The sleep's delay has elapsed: the sleep future completes and the task is
\* scheduled to resume.
TimerSleepDone(t) ==
    /\ prog = "ash2"
    /\ a_cur = 0
    /\ a_timers[t].st = "sleeping"
    /\ a_timers' = [a_timers EXCEPT ![t].st = "woken"]
    /\ UNCHANGED <<notAsh, a_model, a_image, event_queue, flip_task,
                   reducer_task, a_reducers, a_cur, a_closed, a_running,
                   a_init, a_hist, a_views>>

\* The _later() task resumes after its sleep: with a cancellation pending the
\* CancelledError is swallowed and nothing is put; otherwise AUTO_FLIP is put
\* (the queue is unbounded, so put does not suspend) and the task ends.
TimerResume(t) ==
    /\ prog = "ash2"
    /\ a_cur = 0
    /\ a_timers[t].st = "woken"
    /\ IF a_timers[t].cancel
         THEN /\ a_timers' = [a_timers EXCEPT ![t].st = "done"]
              /\ UNCHANGED <<event_queue, a_hist, a_reducers>>
         ELSE /\ a_timers' = [a_timers EXCEPT ![t].st = "done", ![t].puts = @ + 1]
              /\ event_queue' = queue_put(event_queue,
                                           [ev |-> "AUTO_FLIP", src |-> t])
              /\ a_hist' = Append(a_hist, "AUTO_FLIP")
              /\ a_reducers' = wakeup_next(a_reducers)
    /\ UNCHANGED <<notAsh, a_model, a_image, flip_task, reducer_task,
                   a_cur, a_closed, a_running, a_init, a_views>>

\* A _run_loop() task gets the processor: its first step, or its resumption
\* after the getter it awaited was woken.  With a cancellation pending the
\* CancelledError ends the task.
ReducerResume(r) ==
    /\ prog = "ash2"
    /\ a_cur = 0
    /\ a_reducers[r].st \in {"created", "woken"}
    /\ IF a_reducers[r].cancel
         THEN /\ a_reducers' = [a_reducers EXCEPT ![r].st = "done"]
              /\ a_cur' = 0
         ELSE /\ a_reducers' = [a_reducers EXCEPT ![r].st = "running"]
              /\ a_cur' = r
    /\ UNCHANGED <<notAsh, a_model, a_image, event_queue, flip_task,
                   reducer_task, a_timers, a_closed, a_running, a_init,
                   a_hist, a_views>>

\* One iteration of _run_loop with an event available: get it, update the
\* model, re-arm the timer after a NEXT, then _refresh_view.
ReduceEvent ==
    /\ prog = "ash2"
    /\ a_cur # 0
    /\ event_queue # <<>>
    /\ LET event == Head(event_queue).ev IN
        /\ event_queue' = Tail(event_queue)
        /\ IF event = "NEXT"
             THEN \E chosen \in Choices :
                    a_model' = reduce_ash2(a_model, event, chosen)
             ELSE \* no pair is chosen for an AUTO_FLIP
                  a_model' = reduce_ash2(a_model, event, a_model.current)
        /\ IF event = "NEXT"
             THEN /\ a_timers' = start_flip_timer(a_timers, flip_task)
                  /\ flip_task' = Len(a_timers')
             ELSE UNCHANGED <<a_timers, flip_task>>
    /\ a_image' = refresh_view(a_model')
    /\ a_views' = Append(a_views, a_model')
    /\ UNCHANGED <<notAsh, reducer_task, a_reducers, a_cur, a_closed,
                   a_running, a_init, a_hist>>

\* _run_loop finds the queue empty: `await self.event_queue.get()` suspends
\* the task on a getter future.
ReducerWait ==
    /\ prog = "ash2"
    /\ a_cur # 0
    /\ event_queue = <<>>
    /\ a_reducers' = [a_reducers EXCEPT ![a_cur].st = "waiting"]
    /\ a_cur' = 0
    /\ UNCHANGED <<notAsh, a_model, a_image, event_queue, flip_task,
                   reducer_task, a_timers, a_closed, a_running, a_init,
                   a_hist, a_views>>

\* Milo.on_close: cancel the flip timer, cancel the reducer task.
OnClose ==
    /\ prog = "ash2"
    /\ a_cur = 0
    /\ ~a_closed
    /\ a_running > 0
    /\ a_closed' = TRUE
    /\ a_timers' = cancel_flip_timer(a_timers, flip_task)
    /\ a_reducers' = IF reducer_task # 0
                        THEN [a_reducers EXCEPT ![reducer_task] = task_cancel(@)]
                        ELSE a_reducers
    /\ UNCHANGED <<notAsh, a_model, a_image, event_queue, flip_task,
                   reducer_task, a_cur, a_running, a_init, a_hist, a_views>>

NextAsh ==
    \/ OnRunning
    \/ OnNext
    \/ \E t \in DOMAIN a_timers : TimerSleepDone(t)
    \/ \E t \in DOMAIN a_timers : TimerResume(t)
    \/ \E r \in DOMAIN a_reducers : ReducerResume(r)
    \/ ReduceEvent
    \/ ReducerWait
    \/ OnClose

SpecAsh == InitAsh /\ [][NextAsh]_vars

\* The steps of the _later() tasks and of the _run_loop() tasks.
TimerSteps ==
    \/ \E t \in DOMAIN a_timers : TimerSleepDone(t)
    \/ \E t \in DOMAIN a_timers : TimerResume(t)

ReducerSteps ==
    \/ \E r \in DOMAIN a_reducers : ReducerResume(r)
    \/ ReduceEvent
    \/ ReducerWait

\* The event loop lets every sleep end and runs every task that is ready.
SpecAshFair == SpecAsh /\ WF_vars(TimerSteps) /\ WF_vars(ReducerSteps)

\* ------------------------------------------------ raylib_main.py, main
\* The state main() is in when it first reaches the frame loop: a random first
\* card on its front, an empty deque, the clock at zero.
InitRay ==
    /\ prog = "raylib_main"
    /\ \E c \in Choices :
        /\ r_model = Model(c, FALSE)
        /\ r_frame = NoFrame(Model(c, FALSE))
    /\ r_flips = 0
    /\ events = <<>>
    /\ time_since_next = 0
    /\ r_pc = "poll"
    /\ r_drawn = [pair |-> "none", side |-> "none"]
    /\ r_store = word_pairs
    /\ r_boot = [NotStarted EXCEPT !.window = TRUE, !.assets = TRUE,
                                    !.model = TRUE]
    /\ ParkPure
    /\ ParkAsh
    /\ ParkV3
    /\ ParkLoad
    /\ ParkRender
    /\ ParkWork
    /\ ParkTrash
    /\ ParkUpd

\* Policy.flip_delay_s.  Times are counted in whole seconds: a frame time is
\* a number of seconds in 0..MaxDt.
flip_delay_s == 5

\* A frame's scheduling test that waits for the delay to be exceeded.
auto_flip_due_late(model, t) == (~model.showing_back) /\ (t > flip_delay_s)

\* A frame's scheduling test that forgets to look at the face showing.
auto_flip_due_any_face(model, t) == t >= flip_delay_s

\* if (not model.showing_back) and (time_since_next >= policy.flip_delay_s)
auto_flip_due(model, t) == (~model.showing_back) /\ (t >= flip_delay_s)

\* A reducer step whose AUTO_FLIP toggles the face.
reduce_raylib_toggles(model, ev, chosen) ==
    IF ev = "NEXT" THEN next_card(model, chosen) ELSE flip_toggles(model)

\* The body of `while events`, the model update of one event (lines 246-251).
reduce_raylib(model, ev, chosen) ==
    IF ev = "NEXT"
        THEN next_card(model, chosen)
        ELSE IF ev = "AUTO_FLIP" THEN flip(model) ELSE model

\* The first half of a frame (lines 222-241): the frame time is added to the
\* clock, an AUTO_FLIP is scheduled when due, then a click on a button and the
\* space key each schedule a NEXT.
FramePoll ==
    /\ prog = "raylib_main"
    /\ r_pc = "poll"
    /\ \E dt \in 0..MaxDt, click \in BOOLEAN, space \in BOOLEAN :
        /\ time_since_next + dt <= MaxTime
        /\ time_since_next' = time_since_next + dt
        /\ events' = events
                \o (IF auto_flip_due(r_model, time_since_next + dt)
                        THEN <<"AUTO_FLIP">> ELSE <<>>)
                \o (IF click THEN <<"NEXT">> ELSE <<>>)
                \o (IF space THEN <<"NEXT">> ELSE <<>>)
        /\ r_frame' = [start |-> r_model,
                       enq |-> SubSeq(events', Len(events) + 1, Len(events')),
                       log |-> <<>>]
        /\ r_flips' = IF auto_flip_due(r_model, time_since_next + dt)
                        THEN r_flips + 1 ELSE r_flips
    /\ r_pc' = "reduce"
    /\ UNCHANGED <<notRay, r_store, r_boot, r_model, r_drawn>>

\* A pop from the right end of the deque.
events_pop(q) == [ev |-> q[Len(q)], rest |-> SubSeq(q, 1, Len(q) - 1)]

\* events.popleft(): the event taken and the deque that is left.
events_popleft(q) == [ev |-> Head(q), rest |-> Tail(q)]

\* One iteration of `while events` (lines 244-251).
FrameReduce ==
    /\ prog = "raylib_main"
    /\ r_pc = "reduce"
    /\ events # <<>>
    /\ LET ev == events_popleft(events).ev IN
        /\ events' = events_popleft(events).rest
        /\ IF ev = "NEXT"
             THEN /\ \E chosen \in Choices :
                        /\ r_model' = reduce_raylib(r_model, ev, chosen)
                        /\ r_frame' = [r_frame EXCEPT !.log =
                                Append(@, [ev |-> ev, chosen |-> chosen])]
                  /\ time_since_next' = 0
                  /\ r_flips' = 0
             ELSE /\ r_model' = reduce_raylib(r_model, ev, r_model.current)
                  /\ r_frame' = [r_frame EXCEPT !.log =
                          Append(@, [ev |-> ev, chosen |-> r_model.current])]
                  /\ UNCHANGED <<time_since_next, r_flips>>
    /\ UNCHANGED <<notRay, r_store, r_boot, r_pc, r_drawn>>

\* The deque is empty: the frame is drawn from the model (lines 254-303) and
\* the loop goes back to its test.
FrameDraw ==
    /\ prog = "raylib_main"
    /\ r_pc = "reduce"
    /\ events = <<>>
    /\ r_drawn' = [pair |-> r_model.current,
                   side |-> IF r_model.showing_back THEN "back" ELSE "front"]
    /\ r_pc' = "poll"
    /\ UNCHANGED <<notRay, r_store, r_boot, r_model, events, time_since_next,
                   r_frame, r_flips>>

\* rl.window_should_close() is true at the loop test: main leaves the loop.
WindowClose ==
    /\ prog = "raylib_main"
    /\ r_pc = "poll"
    /\ r_pc' = "closed"
    /\ UNCHANGED <<notRay, r_store, r_boot, r_model, events, time_since_next,
                   r_drawn, r_frame, r_flips>>

NextRay == FramePoll \/ FrameReduce \/ FrameDraw \/ WindowClose

SpecRay == InitRay /\ [][NextRay]_vars

\* ---- main() from its first statement
\* main is entered; load_word_pairs(asset("french_words.csv")) returns either
\* no pair at all or the store (line 166).
InitRayMain ==
    /\ prog = "raylib_main"
    /\ r_store \in {<<>>, word_pairs}
    /\ r_boot = NotStarted
    /\ r_pc = "start"
    /\ r_model = Model(word_pairs[1], FALSE)
    /\ r_frame = NoFrame(Model(word_pairs[1], FALSE))
    /\ r_flips = 0
    /\ events = <<>>
    /\ time_since_next = 0
    /\ r_drawn = [pair |-> "none", side |-> "none"]
    /\ ParkPure
    /\ ParkAsh
    /\ ParkV3
    /\ ParkLoad
    /\ ParkRender
    /\ ParkWork
    /\ ParkTrash
    /\ ParkUpd

\* A test of the store that lets every store through.
store_is_empty_never(store) == FALSE

\* `not word_pairs`
store_is_empty(store) == Len(store) = 0

\* Lines 167-168: an empty store raises SystemExit with a message, which the
\* interpreter prints to stderr before exiting with status 1.
MainCheckStore ==
    /\ prog = "raylib_main"
    /\ r_pc = "start"
    /\ IF store_is_empty(r_store)
         THEN /\ r_pc' = "exit"
              /\ r_boot' = [r_boot EXCEPT !.exited = TRUE, !.status = 1,
                                !.diag = "No word pairs loaded (check CSV headers French,English)."]
         ELSE /\ r_pc' = "init_window"
              /\ UNCHANGED r_boot
    /\ UNCHANGED <<notRay, r_store, r_model, events, time_since_next, r_drawn,
                   r_frame, r_flips>>

\* Lines 178-181: init_window, set_target_fps.
MainInitWindow ==
    /\ prog = "raylib_main"
    /\ r_pc = "init_window"
    /\ r_boot' = [r_boot EXCEPT !.window = TRUE]
    /\ r_pc' = "load_assets"
    /\ UNCHANGED <<notRay, r_store, r_model, events, time_since_next, r_drawn,
                   r_frame, r_flips>>

\* Lines 185-195: the four textures and the two fonts are loaded.
MainLoadAssets ==
    /\ prog = "raylib_main"
    /\ r_pc = "load_assets"
    /\ r_boot' = [r_boot EXCEPT !.assets = TRUE]
    /\ r_pc' = "create_model"
    /\ UNCHANGED <<notRay, r_store, r_model, events, time_since_next, r_drawn,
                   r_frame, r_flips>>

\* Lines 199-206: model = Model(current=random.choice(word_pairs)), the empty
\* deque and the clock; main is then at the top of the frame loop.
MainCreateModel ==
    /\ prog = "raylib_main"
    /\ r_pc = "create_model"
    /\ \E i \in DOMAIN r_store :
        /\ r_model' = Model(r_store[i], FALSE)
        /\ r_frame' = NoFrame(Model(r_store[i], FALSE))
    /\ r_flips' = 0
    /\ r_boot' = [r_boot EXCEPT !.model = TRUE]
    /\ events' = <<>>
    /\ time_since_next' = 0
    /\ r_pc' = "poll"
    /\ UNCHANGED <<notRay, r_store, r_drawn>>

NextRayMain ==
    \/ MainCheckStore
    \/ MainInitWindow
    \/ MainLoadAssets
    \/ MainCreateModel
    \/ NextRay

SpecRayMain == InitRayMain /\ [][NextRayMain]_vars

\* ---------------------------------------------------- trash/main_v3.py
\* FlipPolicy.interval_sec
interval_sec == 5

\* RandomSelection.next(current, corpus) for a non-empty corpus, n1 and n2
\* being the two random.choice draws: the second is used when the first
\* returned the current pair.
\* A RandomSelection.next whose second draw replaces only the French word.
selection_next_half(cur, n1, n2) ==
    IF n1 # cur THEN n1 ELSE [fr |-> n2.fr, en |-> cur.en]

selection_next(cur, n1, n2) == IF n1 # cur THEN n1 ELSE n2

\* A Controller whose every method renders.
render_calls_always(method) == 1

\* The renderer.render calls a Controller method makes: __init__ and next call
\* _render_and_show, which calls render once; flip calls only
\* viewport.update_side.
render_calls(method) == IF method \in {"init", "next"} THEN 1 ELSE 0

\* An _on_event that does not ask the flip policy.
on_event_any_policy(evt, auto) ==
    IF evt = "FLIP" THEN "flip"
    ELSE IF evt = "NEXT" THEN "next"
    ELSE "ignored"

\* Controller._on_event: the method an event is dispatched to.
on_event(evt, auto) ==
    IF evt = "FLIP" /\ auto THEN "flip"
    ELSE IF evt = "NEXT" THEN "next"
    ELSE "ignored"

\* A bus whose pump takes the newest event.
bus_get_newest(q) == [evt |-> q[Len(q)], rest |-> SubSeq(q, 1, Len(q) - 1)]

\* AsyncEventBus.pump: evt = await self._q.get() takes the oldest event.
bus_get(q) == [evt |-> Head(q), rest |-> Tail(q)]

\* An update_side that always returns early.
update_side_never(vp_back, show_back) == FALSE

\* TogaViewPort.update_side goes on to swap the view unless
\* show_back == self._showing_back (the views exist since construction).
update_side_changes(vp_back, show_back) == show_back # vp_back

\* A Controller.flip that only ever turns the card to its back.
controller_flip_one_way(back) == TRUE

\* Controller.flip: self.showing_back = not self.showing_back
controller_flip(back) == ~back

\* The state Milo.startup leaves: the Controller is constructed (first pair
\* picked, rendered and shown on its front), the pump and scheduler tasks are
\* created and have not run yet.
InitV3 ==
    /\ prog = "main_v3"
    /\ auto_flip \in BOOLEAN
    /\ current \in Choices
    /\ showing_back = FALSE
    /\ vp_showing_back = FALSE
    /\ vp_views = current
    /\ slot = [pair |-> current, side |-> "front"]
    /\ cache = {current}
    /\ bus_q = <<>>
    /\ pub_tasks = <<>>
    /\ pump = "created"
    /\ sched = "created"
    /\ sched_rem = 0
    /\ v_since = 0
    /\ v_hadNext = FALSE
    /\ v_last = [evt |-> Constructed, renders |-> render_calls("init")]
    /\ v_corpus = word_pairs
    /\ v_boot = StartupDone
    /\ ParkPure
    /\ ParkAsh
    /\ ParkRay
    /\ ParkLoad
    /\ ParkRender
    /\ ParkWork
    /\ ParkTrash
    /\ ParkUpd

\* A callback or task step is ready to run on the event loop.
LoopBusy ==
    \/ pub_tasks # <<>>
    \/ pump \in {"created", "woken", "running"}
    \/ sched = "created"
    \/ (sched = "sleeping" /\ sched_rem = 0)

\* One second passes while the loop is idle.
Tick ==
    /\ prog = "main_v3"
    /\ v_boot.pc = "running"
    /\ ~LoopBusy
    /\ sched_rem' = IF sched = "sleeping" THEN sched_rem - 1 ELSE sched_rem
    /\ v_since' = IF v_since < interval_sec THEN v_since + 1 ELSE v_since
    /\ v_since < interval_sec \/ sched = "sleeping"
    /\ UNCHANGED <<notV3, auto_flip, current,
                   showing_back, vp_showing_back, vp_views, slot, cache, bus_q,
                   pub_tasks, pump, sched, v_hadNext, v_last,
                   v_corpus, v_boot>>

\* A press of the Next or the Flip button:
\* asyncio.create_task(self.bus.publish(evt)).
Press(evt) ==
    /\ prog = "main_v3"
    /\ v_boot.pc = "running"
    /\ pump # "running"
    /\ Len(pub_tasks) + Len(bus_q) < MaxBus
    /\ pub_tasks' = Append(pub_tasks, [ev |-> evt, src |-> "button"])
    /\ UNCHANGED <<notV3, auto_flip, current,
                   showing_back, vp_showing_back, vp_views, slot, cache, bus_q,
                   pump, sched, sched_rem, v_since, v_hadNext, v_last,
                   v_corpus, v_boot>>

\* The oldest publish() task runs: await self._q.put(evt); the queue is
\* unbounded, so the put completes at once and wakes a waiting pump.
PublishTask ==
    /\ prog = "main_v3"
    /\ pump # "running"
    /\ pub_tasks # <<>>
    /\ bus_q' = Append(bus_q, Head(pub_tasks))
    /\ pub_tasks' = Tail(pub_tasks)
    /\ pump' = IF pump = "waiting" THEN "woken" ELSE pump
    /\ UNCHANGED <<notV3, auto_flip, current,
                   showing_back, vp_showing_back, vp_views, slot, cache, sched,
                   sched_rem, v_since, v_hadNext, v_last,
                   v_corpus, v_boot>>

\* First step of IntervalScheduler.run: return when auto_flip is off, else
\* start the first sleep.
SchedStart ==
    /\ prog = "main_v3"
    /\ v_boot.pc = "running"
    /\ pump # "running"
    /\ sched = "created"
    /\ IF auto_flip
         THEN sched' = "sleeping" /\ sched_rem' = interval_sec
         ELSE sched' = "done" /\ sched_rem' = 0
    /\ UNCHANGED <<notV3, auto_flip, current,
                   showing_back, vp_showing_back, vp_views, slot, cache, bus_q,
                   pub_tasks, pump, v_since, v_hadNext, v_last,
                   v_corpus, v_boot>>

\* The scheduler's sleep is over: publish(self.event), then sleep again.
SchedPublish ==
    /\ prog = "main_v3"
    /\ pump # "running"
    /\ sched = "sleeping"
    /\ sched_rem = 0
    /\ bus_q' = Append(bus_q, [ev |-> "FLIP", src |-> "scheduler"])
    /\ pump' = IF pump = "waiting" THEN "woken" ELSE pump
    /\ sched_rem' = interval_sec
    /\ UNCHANGED <<notV3, auto_flip, current,
                   showing_back, vp_showing_back, vp_views, slot, cache,
                   pub_tasks, sched, v_since, v_hadNext, v_last,
                   v_corpus, v_boot>>

\* The pump() task gets the processor: its first step, or its resumption after
\* a put woke it.
PumpResume ==
    /\ prog = "main_v3"
    /\ v_boot.pc = "running"
    /\ pump \in {"created", "woken"}
    /\ pump' = "running"
    /\ UNCHANGED <<notV3, auto_flip, current,
                   showing_back, vp_showing_back, vp_views, slot, cache, bus_q,
                   pub_tasks, sched, sched_rem, v_since, v_hadNext, v_last,
                   v_corpus, v_boot>>

\* pump() delivers a FLIP to Controller._on_event: with auto_flip on,
\* Controller.flip, then TogaViewPort.update_side (the views exist since
\* construction; the slot changes only when the side differs).
HandleFlip ==
    /\ prog = "main_v3"
    /\ pump = "running"
    /\ bus_q # <<>>
    /\ bus_get(bus_q).evt.ev = "FLIP"
    /\ bus_q' = bus_get(bus_q).rest
    /\ v_last' = [evt |-> bus_get(bus_q).evt,
                  renders |-> render_calls(on_event("FLIP", auto_flip))]
    /\ IF on_event("FLIP", auto_flip) = "flip"
         THEN /\ showing_back' = controller_flip(showing_back)
              /\ IF ~update_side_changes(vp_showing_back, showing_back')
                   THEN UNCHANGED <<vp_showing_back, slot>>
                   ELSE /\ vp_showing_back' = showing_back'
                        /\ slot' = [pair |-> vp_views,
                                    side |-> IF showing_back' THEN "back"
                                                              ELSE "front"]
         ELSE UNCHANGED <<showing_back, vp_showing_back, slot>>
    /\ UNCHANGED <<notV3, auto_flip, current,
                   vp_views, cache, pub_tasks, pump, sched, sched_rem, v_since,
                   v_hadNext, v_corpus, v_boot>>

\* pump() delivers a NEXT to Controller._on_event: Controller.next picks the
\* next pair, resets to the front, renders (through the cache) and shows.
HandleNext ==
    /\ prog = "main_v3"
    /\ pump = "running"
    /\ bus_q # <<>>
    /\ bus_get(bus_q).evt.ev = "NEXT"
    /\ bus_q' = bus_get(bus_q).rest
    /\ v_last' = [evt |-> bus_get(bus_q).evt,
                  renders |-> render_calls(on_event("NEXT", auto_flip))]
    /\ \E n1 \in Choices, n2 \in Choices :
            current' = selection_next(current, n1, n2)
    /\ showing_back' = FALSE
    /\ cache' = cache \cup {current'}
    /\ vp_views' = current'
    /\ vp_showing_back' = showing_back'
    /\ slot' = [pair |-> current', side |-> "front"]
    /\ v_since' = 0
    /\ v_hadNext' = TRUE
    /\ UNCHANGED <<notV3, auto_flip, pub_tasks, pump,
                   sched, sched_rem, v_corpus, v_boot>>

\* pump() finds the queue empty and suspends in `await self._q.get()`.
PumpWait ==
    /\ prog = "main_v3"
    /\ pump = "running"
    /\ bus_q = <<>>
    /\ pump' = "waiting"
    /\ UNCHANGED <<notV3, auto_flip, current,
                   showing_back, vp_showing_back, vp_views, slot, cache, bus_q,
                   pub_tasks, sched, sched_rem, v_since, v_hadNext, v_last,
                   v_corpus, v_boot>>

NextV3 ==
    \/ Tick
    \/ Press("NEXT")
    \/ Press("FLIP")
    \/ PublishTask
    \/ SchedStart
    \/ SchedPublish
    \/ PumpResume
    \/ HandleFlip
    \/ HandleNext
    \/ PumpWait

SpecV3 == InitV3 /\ [][NextV3]_vars

\* ---- Milo.startup from its first statement
\* startup is entered; load_csv_word_pairs returns either no pair at all or
\* the corpus (line 364).  startup builds FlipPolicy(auto_flip=True).
InitV3Main ==
    /\ prog = "main_v3"
    /\ v_corpus \in {<<>>, word_pairs}
    /\ v_boot = StartupEntered
    /\ auto_flip = TRUE
    /\ current = word_pairs[1]
    /\ showing_back = FALSE
    /\ vp_showing_back = FALSE
    /\ vp_views = word_pairs[1]
    /\ slot = [pair |-> word_pairs[1], side |-> "front"]
    /\ cache = {}
    /\ bus_q = <<>>
    /\ pub_tasks = <<>>
    /\ pump = "parked"
    /\ sched = "parked"
    /\ sched_rem = 0
    /\ v_since = 0
    /\ v_hadNext = FALSE
    /\ v_last = [evt |-> Constructed, renders |-> 0]
    /\ ParkPure
    /\ ParkAsh
    /\ ParkRay
    /\ ParkLoad
    /\ ParkRender
    /\ ParkWork
    /\ ParkTrash
    /\ ParkUpd

\* Lines 364-387: the corpus and the theme are loaded, the renderer and the
\* window's boxes are built, and self.main_window.show() is called.
StartupShowWindow ==
    /\ prog = "main_v3"
    /\ v_boot.pc = "start"
    /\ v_boot' = [v_boot EXCEPT !.window = TRUE, !.pc = "controller"]
    /\ UNCHANGED <<notV3, auto_flip, current, showing_back, vp_showing_back,
                   vp_views, slot, cache, bus_q, pub_tasks, pump, sched,
                   sched_rem, v_since, v_hadNext, v_last, v_corpus>>

\* Lines 390-412: the slot, the viewport, the bus, the policies, then
\* Controller(...): selection.initial is random.choice(corpus), which raises
\* IndexError on an empty corpus and ends startup there; otherwise the first
\* pair is rendered and shown, and _on_event is subscribed.
StartupController ==
    /\ prog = "main_v3"
    /\ v_boot.pc = "controller"
    /\ IF Len(v_corpus) = 0
         THEN /\ v_boot' = [v_boot EXCEPT !.pc = "failed",
                                          !.error = "IndexError"]
              /\ UNCHANGED <<current, vp_views, slot, cache, v_last>>
         ELSE /\ \E i \in DOMAIN v_corpus : current' = v_corpus[i]
              /\ vp_views' = current'
              /\ slot' = [pair |-> current', side |-> "front"]
              /\ cache' = {current'}
              /\ v_last' = [evt |-> Constructed,
                            renders |-> render_calls("init")]
              /\ v_boot' = [v_boot EXCEPT !.controller = TRUE, !.pc = "tasks"]
    /\ UNCHANGED <<notV3, auto_flip, showing_back, vp_showing_back, bus_q,
                   pub_tasks, pump, sched, sched_rem, v_since, v_hadNext,
                   v_corpus>>

\* Lines 415-416: create_task(self.bus.pump()) and
\* create_task(self.flip_sched.run(self.bus.publish)).
StartupTasks ==
    /\ prog = "main_v3"
    /\ v_boot.pc = "tasks"
    /\ pump' = "created"
    /\ sched' = "created"
    /\ v_boot' = [v_boot EXCEPT !.tasks = TRUE, !.pc = "buttons"]
    /\ UNCHANGED <<notV3, auto_flip, current, showing_back, vp_showing_back,
                   vp_views, slot, cache, bus_q, pub_tasks, sched_rem,
                   v_since, v_hadNext, v_last, v_corpus>>

\* Lines 419-425: the Next and Flip buttons are added; startup returns.
StartupButtons ==
    /\ prog = "main_v3"
    /\ v_boot.pc = "buttons"
    /\ v_boot' = [v_boot EXCEPT !.buttons = TRUE, !.pc = "running"]
    /\ UNCHANGED <<notV3, auto_flip, current, showing_back, vp_showing_back,
                   vp_views, slot, cache, bus_q, pub_tasks, pump, sched,
                   sched_rem, v_since, v_hadNext, v_last, v_corpus>>

NextV3Main ==
    \/ StartupShowWindow
    \/ StartupController
    \/ StartupTasks
    \/ StartupButtons
    \/ NextV3

SpecV3Main == InitV3Main /\ [][NextV3Main]_vars

\* ------------------------------------------------------ the CSV loaders
\* A text is a sequence of symbols: " " is a whitespace character, any other
\* symbol stands for a run of non-blank characters.  A cell of a DictReader
\* row is a text or None (a column the row does not have).
Text(t) == [some |-> TRUE, text |-> t]

NoneCell == [some |-> FALSE, text |-> <<>>]

\* `value or ""`
or_empty(cell) == IF cell.some THEN cell.text ELSE <<>>

RECURSIVE lstrip(_)
lstrip(t) == IF t # <<>> /\ Head(t) = " " THEN lstrip(Tail(t)) ELSE t

RECURSIVE rstrip(_)
rstrip(t) ==
    IF t # <<>> /\ t[Len(t)] = " " THEN rstrip(SubSeq(t, 1, Len(t) - 1)) ELSE t

\* A trim that only removes leading whitespace.
strip_leading_only(t) == lstrip(t)

\* str.strip()
strip(t) == rstrip(lstrip(t))

\* load_word_pairs of raylib_main.py: the loop over the DictReader rows,
\* `rows` being the list built so far.
RECURSIVE load_word_pairs_loop(_, _)
load_word_pairs_loop(rows, reader) ==
    IF reader = <<>> THEN rows
    ELSE LET row == Head(reader)
             fr == strip(or_empty(row.French))
             en == strip(or_empty(row.English))
         IN load_word_pairs_loop(
                IF fr # <<>> /\ en # <<>>
                    THEN Append(rows, [fr |-> fr, en |-> en]) ELSE rows,
                Tail(reader))

load_word_pairs(reader) == load_word_pairs_loop(<<>>, reader)

\* load_word_pairs of trash/ash2.py
RECURSIVE load_word_pairs_ash2_loop(_, _)
load_word_pairs_ash2_loop(rows, reader) ==
    IF reader = <<>> THEN rows
    ELSE LET row == Head(reader)
             fr == strip(or_empty(row.French))
             en == strip(or_empty(row.English))
         IN load_word_pairs_ash2_loop(
                IF fr # <<>> /\ en # <<>>
                    THEN Append(rows, [fr |-> fr, en |-> en]) ELSE rows,
                Tail(reader))

load_word_pairs_ash2(reader) == load_word_pairs_ash2_loop(<<>>, reader)

\* load_word_pairs of trash.py
RECURSIVE load_word_pairs_trash_loop(_, _)
load_word_pairs_trash_loop(rows, reader) ==
    IF reader = <<>> THEN rows
    ELSE LET row == Head(reader)
             fr == strip(or_empty(row.French))
             en == strip(or_empty(row.English))
         IN load_word_pairs_trash_loop(
                IF fr # <<>> /\ en # <<>>
                    THEN Append(rows, [fr |-> fr, en |-> en]) ELSE rows,
                Tail(reader))

load_word_pairs_trash(reader) == load_word_pairs_trash_loop(<<>>, reader)

\* load_csv_word_pairs of trash/main_v3.py: the loop over the csv.reader
\* rows, each a list of texts; short rows and the header row are skipped.
RECURSIVE load_csv_word_pairs_loop(_, _)
load_csv_word_pairs_loop(out, rdr) ==
    IF rdr = <<>> THEN out
    ELSE LET row == Head(rdr) IN
         IF Len(row) < 2
            THEN load_csv_word_pairs_loop(out, Tail(rdr))
            ELSE LET fr == strip(row[1])
                     en == strip(row[2])
                 IN IF <<fr, en>> = << <<"French">>, <<"English">> >>
                        THEN load_csv_word_pairs_loop(out, Tail(rdr))
                        ELSE load_csv_word_pairs_loop(
                                Append(out, [fr |-> fr, en |-> en]), Tail(rdr))

load_csv_word_pairs(rdr) == load_csv_word_pairs_loop(<<>>, rdr)

\* The rows a csv.DictReader can yield for a file with or without the two
\* columns: plain, padded, blank, empty and missing values.
DictRows ==
    { [French |-> Text(<<"a">>),            English |-> Text(<<"b">>)],
      [French |-> Text(<<" ", "b", " ">>),  English |-> Text(<<"a", " ">>)],
      [French |-> Text(<<"a", " ", "b">>),  English |-> Text(<<" ", "a">>)],
      [French |-> Text(<<" ">>),            English |-> Text(<<"a">>)],
      [French |-> Text(<<"a">>),            English |-> Text(<<>>)],
      [French |-> NoneCell,                 English |-> Text(<<"b">>)],
      [French |-> Text(<<"b">>),            English |-> NoneCell] }

\* The rows a csv.reader can yield: an empty line, one column, two columns
\* (plain, padded, blank, the header) and three columns.
ListRows ==
    { <<>>,
      << <<"a">> >>,
      << <<"a">>, <<" ", "b", " ">> >>,
      << <<" ">>, <<"a">> >>,
      << <<"b">>, <<>> >>,
      << <<"French">>, <<"English">> >>,
      << <<"a">>, <<"b">>, <<"a">> >> }

RECURSIVE SeqsUpTo(_, _)
SeqsUpTo(S, n) ==
    IF n = 0 THEN {<<>>}
    ELSE LET shorter == SeqsUpTo(S, n - 1)
         IN shorter \cup {Append(q, x) : q \in shorter, x \in S}

InitLoad ==
    /\ prog = "loader"
    /\ l_file \in {"raylib_main", "ash2", "trash", "main_v3"}
    /\ l_rows \in SeqsUpTo(IF l_file = "main_v3" THEN ListRows ELSE DictRows,
                            MaxRows)
    /\ l_out = <<>>
    /\ l_done = FALSE
    /\ ParkPure
    /\ ParkAsh
    /\ ParkRay
    /\ ParkV3
    /\ ParkRender
    /\ ParkWork
    /\ ParkTrash
    /\ ParkUpd

\* load_word_pairs is called on the file and returns.
CallLoadWordPairs ==
    /\ prog = "loader"
    /\ l_file # "main_v3"
    /\ ~l_done
    /\ l_out' = CASE l_file = "raylib_main" -> load_word_pairs(l_rows)
                  [] l_file = "ash2" -> load_word_pairs_ash2(l_rows)
                  [] l_file = "trash" -> load_word_pairs_trash(l_rows)
    /\ l_done' = TRUE
    /\ UNCHANGED <<notLoad, l_file, l_rows>>

\* load_csv_word_pairs is called on the file and returns.
CallLoadCsvWordPairs ==
    /\ prog = "loader"
    /\ l_file = "main_v3"
    /\ ~l_done
    /\ l_out' = load_csv_word_pairs(l_rows)
    /\ l_done' = TRUE
    /\ UNCHANGED <<notLoad, l_file, l_rows>>

NextLoad == CallLoadWordPairs \/ CallLoadCsvWordPairs

SpecLoad == InitLoad /\ [][NextLoad]_vars

\* --------------------------------------------------- the card renderers
\* A Pillow image is the base image it was copied from and the texts drawn
\* on it, in drawing order; the fonts of the one theme are left out.
\* CardImages are objects: id tells two of them apart, 0 stands for None.
base_copy(base) == [base |-> base, texts |-> <<>>]

draw_text(img, pos, text, fill) ==
    [img EXCEPT !.texts = Append(@, [pos |-> pos, text |-> text, fill |-> fill])]

CardImages(id, front, back) == [id |-> id, front |-> front, back |-> back]

NoImages == CardImages(0, base_copy("none"), base_copy("none"))

\* ThemeSpec of trash/main_v3.py and Theme of trash.py: the default colours.
ThemeColors == [title_color |-> "red", word_color |-> "green"]

\* Policy of trash/ash2.py, with its default titles and colours.
Policy ==
    [front_title |-> "French", back_title |-> "English",
     title_color |-> "red", word_color |-> "green"]

\* render_card of trash.py; id is the identity of the object it creates.
render_card(words, id) ==
    CardImages(id,
        draw_text(draw_text(base_copy("base_front"), "title_pos", "French",
                            ThemeColors.title_color),
                  "word_pos", words.fr, ThemeColors.word_color),
        draw_text(draw_text(base_copy("base_back"), "title_pos", "English",
                            ThemeColors.title_color),
                  "word_pos", words.en, ThemeColors.word_color))

\* render_card of trash/ash2.py: titles and colours come from the policy.
render_card_ash2(words, id) ==
    CardImages(id,
        draw_text(draw_text(base_copy("base_front"), "title_pos",
                            Policy.front_title, Policy.title_color),
                  "word_pos", words.fr, Policy.word_color),
        draw_text(draw_text(base_copy("base_back"), "title_pos",
                            Policy.back_title, Policy.title_color),
                  "word_pos", words.en, Policy.word_color))

\* A cache lookup that never finds anything.
cache_get_miss(c, key) == NoImages

\* A cache lookup that ignores the key.
cache_get_any(c, key) ==
    IF c # {} THEN (CHOOSE e \in c : TRUE).imgs ELSE NoImages

\* self._cache.get(key); with one theme, key is the pair of words.
cache_get(c, key) ==
    IF \E e \in c : e.key = key
        THEN (CHOOSE e \in c : e.key = key).imgs
        ELSE NoImages

\* self._cache[key] = imgs
cache_set(c, key, imgs) ==
    {e \in c : e.key # key} \cup {[key |-> key, imgs |-> imgs]}

\* CardRenderer.render of trash/main_v3.py: returns the CardImages and the
\* cache it leaves; a CardImages object is always true in `if imgs`.
CardRenderer_render(c, words, id) ==
    LET imgs == cache_get(c, words) IN
    IF imgs.id # 0
        THEN [imgs |-> imgs, cache |-> c]
        ELSE LET drawn ==
                   CardImages(id,
                       draw_text(draw_text(base_copy("base_front"), "title_pos",
                                           "French", ThemeColors.title_color),
                                 "word_pos", words.fr, ThemeColors.word_color),
                       draw_text(draw_text(base_copy("base_back"), "title_pos",
                                           "English", ThemeColors.title_color),
                                 "word_pos", words.en, ThemeColors.word_color))
             IN [imgs |-> drawn, cache |-> cache_set(c, words, drawn)]

\* A copy that hands back the image it was asked to copy.
image_copy_alias(obj) == obj

\* theme.base_front.copy(): the image drawn on is a new object, not the
\* template obj.
image_copy(obj) == "fresh"

\* ImageDraw.Draw(target).text(...): the texts land on a template only when
\* target is that template.
theme_after_draw(theme, target, texts) ==
    IF target \in DOMAIN theme
        THEN [theme EXCEPT ![target] = @ \o texts]
        ELSE theme

\* The theme after a renderer drew the front and the back of imgs.
theme_after_render(theme, imgs) ==
    theme_after_draw(
        theme_after_draw(theme, image_copy("base_front"), imgs.front.texts),
        image_copy("base_back"), imgs.back.texts)

\* A renderer of one theme, before its first call.
InitRender ==
    /\ prog = "renderer"
    /\ c_file \in {"main_v3", "trash", "ash2"}
    /\ c_cache = {}
    /\ c_requests = <<>>
    /\ c_returned = <<>>
    /\ c_computed = 0
    /\ c_theme = LoadedTheme
    /\ ParkPure
    /\ ParkAsh
    /\ ParkRay
    /\ ParkV3
    /\ ParkLoad
    /\ ParkWork
    /\ ParkTrash
    /\ ParkUpd

\* renderer.render(words) is called on the CardRenderer.
CallRender ==
    /\ prog = "renderer"
    /\ c_file = "main_v3"
    /\ Len(c_requests) < MaxRenders
    /\ \E words \in Choices :
        LET r == CardRenderer_render(c_cache, words, c_computed + 1) IN
        /\ c_requests' = Append(c_requests, words)
        /\ c_returned' = Append(c_returned, r.imgs)
        /\ c_cache' = r.cache
        /\ c_computed' = IF r.imgs.id = c_computed + 1
                            THEN c_computed + 1 ELSE c_computed
        /\ c_theme' = IF r.imgs.id = c_computed + 1
                         THEN theme_after_render(c_theme, r.imgs)
                         ELSE c_theme
    /\ UNCHANGED <<notRender, c_file>>

\* render_card(words, theme) of trash.py or render_card(words, theme,
\* policy) of trash/ash2.py is called: there is no cache.
CallRenderCard ==
    /\ prog = "renderer"
    /\ c_file # "main_v3"
    /\ Len(c_requests) < MaxRenders
    /\ \E words \in Choices :
        /\ c_requests' = Append(c_requests, words)
        /\ c_returned' = Append(c_returned,
                IF c_file = "trash"
                    THEN render_card(words, c_computed + 1)
                    ELSE render_card_ash2(words, c_computed + 1))
        /\ c_theme' = theme_after_render(c_theme, c_returned'[Len(c_returned')])
    /\ c_computed' = c_computed + 1
    /\ UNCHANGED <<notRender, c_file, c_cache>>

NextRender == CallRender \/ CallRenderCard

SpecRender == InitRender /\ [][NextRender]_vars

\* ---- the CardRenderer and a caller that draws on what it was given
\* render ends with `self._cache[key] = imgs; return imgs`, and on a hit
\* returns the cached object: the CardImages a caller holds and the cache
\* entry are one object (one id), so a text drawn through one is seen
\* through the other.  Each image is drawn on by a caller at most once.
CallerDraws ==
    /\ prog = "renderer"
    /\ c_file = "main_v3"
    /\ \E i \in DOMAIN c_returned, side \in {"front", "back"} :
        LET obj == c_returned[i].id
            mark(imgs) ==
                IF side = "front"
                    THEN [imgs EXCEPT !.front =
                            draw_text(@, "word_pos", "caller", "blue")]
                    ELSE [imgs EXCEPT !.back =
                            draw_text(@, "word_pos", "caller", "blue")]
        IN
        /\ Len(c_returned[i][side].texts) = 2
        /\ c_returned' = [k \in DOMAIN c_returned |->
                IF c_returned[k].id = obj THEN mark(c_returned[k])
                                          ELSE c_returned[k]]
        /\ c_cache' = {IF e.imgs.id = obj
                          THEN [e EXCEPT !.imgs = mark(e.imgs)]
                          ELSE e : e \in c_cache}
    /\ UNCHANGED <<notRender, c_file, c_requests, c_computed, c_theme>>

NextRenderCaller == NextRender \/ CallerDraws

SpecRenderCaller == InitRender /\ [][NextRenderCaller]_vars

\* -------------------------------------------- trash/working_main.py, Milo
notWork == <<prog, pureVars, ashVars, rayVars, v3Vars, loadVars, renderVars, trashVars,
    updVars>>

\* The state startup() leaves: a pair of views for a random row, the front
\* one in the body, and the first call_flip_card task.  (A startup that
\* draws the leading [] of word_pairs fails on current_word_pair[0].)
InitWork ==
    /\ prog = "working_main"
    /\ w_current \in 1..NumPairs
    /\ w_card = 0
    /\ w_body = [card |-> 0, side |-> "front"]
    /\ w_tasks = <<[card |-> 0, st |-> "sleeping"]>>
    /\ ParkPure
    /\ ParkAsh
    /\ ParkRay
    /\ ParkV3
    /\ ParkLoad
    /\ ParkRender
    /\ ParkTrash
    /\ ParkUpd

\* Milo.change_card: a button press.  `row` is what choice(word_pairs)
\* returns; for the leading [] the handler stops at current_word_pair[0]
\* with an IndexError, after the assignment of line 146.  Otherwise new
\* views are built, the front one replaces the child of the body and a
\* new call_flip_card task is created for them.
ChangeCard ==
    /\ prog = "working_main"
    /\ w_card < MaxChange
    /\ \E row \in 0..NumPairs :
        /\ w_current' = row
        /\ IF row = 0
             THEN UNCHANGED <<w_card, w_body, w_tasks>>
             ELSE /\ w_card' = w_card + 1
                  /\ w_body' = [card |-> w_card + 1, side |-> "front"]
                  /\ w_tasks' = Append(w_tasks,
                                    [card |-> w_card + 1, st |-> "sleeping"])
    /\ UNCHANGED notWork

\* Milo.flip_card(card), for the body it is applied to: the body after the
\* call, and whether body.replace raised (Widget.replace looks the old
\* child up with list.index, which raises ValueError for a view that is
\* not a child of the body).
flip_card(cur, body, card) ==
    IF cur = 0
        THEN [body |-> body, raised |-> FALSE]
    ELSE IF body # [card |-> card, side |-> "back"]
        THEN IF body = [card |-> card, side |-> "front"]
                THEN [body |-> [card |-> card, side |-> "back"], raised |-> FALSE]
                ELSE [body |-> body, raised |-> TRUE]
    ELSE [body |-> body, raised |-> FALSE]

\* Milo.call_flip_card: the task's asyncio.sleep(10) is over and it calls
\* flip_card(card); an exception ends the task, otherwise it sleeps again.
FlipTaskWake(t) ==
    /\ prog = "working_main"
    /\ t \in DOMAIN w_tasks
    /\ w_tasks[t].st = "sleeping"
    /\ LET r == flip_card(w_current, w_body, w_tasks[t].card) IN
        /\ w_body' = r.body
        /\ w_tasks' = IF r.raised
                          THEN [w_tasks EXCEPT ![t].st = "failed"]
                          ELSE w_tasks
    /\ UNCHANGED <<notWork, w_current, w_card>>

NextWork ==
    \/ ChangeCard
    \/ \E t \in 1..(MaxChange + 1) : FlipTaskWake(t)

SpecWork == InitWork /\ [][NextWork]_vars

\* ------------------------------------------------------ trash.py, Milo
notTrash == <<prog, pureVars, ashVars, rayVars, v3Vars, loadVars, renderVars,
              workVars,
    updVars>>

\* The state startup() leaves: a random first card rendered on its front
\* and an empty queue.  The two create_task calls of lines 239-240 are
\* commented out: no _scheduler task and no _ui_consumer task exists.
InitTrash ==
    /\ prog = "trash"
    /\ \E c \in Choices :
        /\ t_model = Model(c, FALSE)
        /\ t_image = refresh_view(Model(c, FALSE))
    /\ t_events = <<>>
    /\ ParkPure
    /\ ParkAsh
    /\ ParkRay
    /\ ParkV3
    /\ ParkLoad
    /\ ParkRender
    /\ ParkWork
    /\ ParkUpd

\* Milo.on_flip: self.events.put_nowait("flip")
OnFlipTrash ==
    /\ prog = "trash"
    /\ Len(t_events) < MaxMsgs
    /\ t_events' = Append(t_events, "flip")
    /\ UNCHANGED <<notTrash, t_model, t_image>>

\* Milo.on_next: self.events.put_nowait("next")
OnNextTrash ==
    /\ prog = "trash"
    /\ Len(t_events) < MaxMsgs
    /\ t_events' = Append(t_events, "next")
    /\ UNCHANGED <<notTrash, t_model, t_image>>

NextTrash == OnFlipTrash \/ OnNextTrash

SpecTrash == InitTrash /\ [][NextTrash]_vars

\* The event loop runs every callback and task step that is ready.
SpecTrashFair == SpecTrash /\ WF_vars(NextTrash)

\* ---- update of trash.py, applied in isolation
notUpd == <<prog, pureVars, ashVars, rayVars, v3Vars, loadVars, renderVars,
            workVars, trashVars>>

\* The messages update is called with: the two it knows and other strings.
Msgs == {"flip", "next", "", "quit"}

\* update(model, msg, word_pairs) of trash.py; chosen is what
\* random.choice(word_pairs) returns when update calls it.
update(model, msg, chosen) ==
    IF msg = "flip" /\ ~model.showing_back
        THEN [model EXCEPT !.showing_back = TRUE]
    ELSE IF msg = "next"
        THEN [model EXCEPT !.current = chosen, !.showing_back = FALSE]
    ELSE model

\* A model and a message are given; update has not been called yet.
InitUpd ==
    /\ prog = "update"
    /\ u_model \in Models
    /\ u_msg \in Msgs
    /\ u_outs = <<>>
    /\ ParkPure
    /\ ParkAsh
    /\ ParkRay
    /\ ParkV3
    /\ ParkLoad
    /\ ParkRender
    /\ ParkWork
    /\ ParkTrash

\* One more call update(u_model, u_msg, word_pairs) with the same arguments.
CallUpdate ==
    /\ prog = "update"
    /\ Len(u_outs) < MaxCalls
    /\ \E chosen \in Choices :
            u_outs' = Append(u_outs, update(u_model, u_msg, chosen))
    /\ UNCHANGED <<notUpd, u_model, u_msg>>

NextUpd == CallUpdate

SpecUpd == InitUpd /\ [][NextUpd]_vars

\* ------------------------------------------------------- all programs
Init == InitPure \/ InitAsh \/ InitRay \/ InitV3

Next == NextPure \/ NextAsh \/ NextRay \/ NextV3

Spec == Init /\ [][Next]_vars

\* ------------------------------------------------------------- claims
LastCall == IF p_calls = <<>> THEN "none" ELSE p_calls[Len(p_calls)]

\* C1: flip is idempotent and always ends on the back: whatever model flip is
\* applied to, its result shows the back, and a second flip applied to the
\* result of a first flip returns that result unchanged.
C1_FlipIdempotent ==
    LastCall = "flip" =>
        /\ p_out.showing_back = TRUE
        /\ p_out.current = p_prev.current
        /\ (Len(p_calls) >= 2 /\ p_calls[Len(p_calls) - 1] = "flip")
                => p_out = p_prev

\* C1 witness: flip applied twice to a model that showed the front.
C1_Witness ==
    /\ p_calls = <<"flip", "flip">>
    /\ p_in.showing_back = FALSE
    /\ p_out.showing_back = TRUE

\* C2: next_card(m, p) returns the model (current = p, showing_back = false),
\* for every m and p, including p = m.current and m showing its back.
C2_NextCardTotal ==
    LastCall = "next_card" => p_out = Model(p_arg, FALSE)

\* C2 witness: next_card applied to a flipped model with its own pair.
C2_Witness ==
    /\ LastCall = "next_card"
    /\ p_prev.showing_back = TRUE
    /\ p_arg = p_prev.current
    /\ p_out.showing_back = FALSE

\* ---- helpers for the claims about trash/ash2.py and raylib_main.py
\* The model the k-th processed event of ash2 was applied to.
PrevView(k) == IF k = 1 THEN a_init ELSE a_views[k - 1]

\* This step is the ash2 reducer taking event e from the queue.
AshProcessed(e) ==
    /\ a_cur # 0
    /\ event_queue # <<>>
    /\ Head(event_queue).ev = e
    /\ event_queue' = Tail(event_queue)

\* This step is the raylib reducer taking event e from the deque.
RayProcessed(e) ==
    /\ r_pc = "reduce"
    /\ events # <<>>
    /\ Head(events) = e
    /\ events' = Tail(events)

\* C3: in ash2 the models presented by _refresh_view, one per processed event,
\* are the successive results of folding the transitions over the events in
\* the order they were put: the k-th view is next_card (for a NEXT) or flip
\* (for an AUTO_FLIP) of the (k-1)-th, the k-th processed event is the k-th
\* event put, and the events not yet processed are exactly the queue's content
\* in put order (none skipped, reordered, merged or applied twice).
C3_QueueOrdering ==
    /\ Len(a_views) + Len(event_queue) = Len(a_hist)
    /\ \A i \in DOMAIN event_queue :
            event_queue[i].ev = a_hist[Len(a_views) + i]
    /\ \A k \in DOMAIN a_views :
            /\ a_views[k].current \in Choices
            /\ a_views[k] =
                 IF a_hist[k] = "NEXT"
                    THEN next_card_ash2(PrevView(k), a_views[k].current)
                    ELSE flip_ash2(PrevView(k))
    /\ a_model = IF a_views = <<>> THEN a_init ELSE a_views[Len(a_views)]
    /\ a_image = refresh_view(a_model)

\* C3 witness: three events processed, an AUTO_FLIP before a NEXT, with one
\* more event still queued.
C3_Witness ==
    /\ Len(a_views) >= 3
    /\ event_queue # <<>>
    /\ \E i, j \in DOMAIN a_views :
            i < j /\ a_hist[i] = "AUTO_FLIP" /\ a_hist[j] = "NEXT"

\* C4: in both reducers, processing an AUTO_FLIP while the model already shows
\* its back leaves the model value-equal (same pair, still on its back).
C4_AutoFlipNoOpWhenFlipped ==
    [][ /\ (AshProcessed("AUTO_FLIP") /\ a_model.showing_back)
                => a_model' = a_model
        /\ (RayProcessed("AUTO_FLIP") /\ r_model.showing_back)
                => r_model' = r_model ]_vars

\* C4 witness: ash2 has processed an AUTO_FLIP on a model that showed its back.
C4_Witness ==
    \E k \in DOMAIN a_views :
        /\ a_hist[k] = "AUTO_FLIP"
        /\ PrevView(k).showing_back
        /\ a_views[k] = PrevView(k)

\* C6: in both programs the card goes from its back to its front only in a
\* reducer step that processes a NEXT.
C6_FrontOnlyByNext ==
    [][ /\ (a_model.showing_back /\ ~a_model'.showing_back)
                => AshProcessed("NEXT")
        /\ (r_model.showing_back /\ ~r_model'.showing_back)
                => RayProcessed("NEXT") ]_vars

\* C6 witness: the raylib loop drew the back in the last frame and a NEXT of
\* the current frame has put the card on its front again.
C6_Witness ==
    /\ prog = "raylib_main"
    /\ r_pc = "reduce"
    /\ r_drawn.side = "back"
    /\ ~r_model.showing_back

\* C7: each armed timer puts at most one AUTO_FLIP; a timer that was still
\* pending when the next one was armed (and any cancelled timer) puts none; a
\* timer that ran to its end uncancelled has put exactly one; so the AUTO_FLIPs
\* ever put are one per timer that completed uncancelled.
C7_TimerSingleShot ==
    /\ \A t \in DOMAIN a_timers :
            /\ a_timers[t].puts <= 1
            /\ a_timers[t].replaced => a_timers[t].puts = 0
            /\ a_timers[t].cancel => a_timers[t].puts = 0
            /\ (a_timers[t].st = "done" /\ ~a_timers[t].cancel)
                    => a_timers[t].puts = 1
    /\ CountEv(a_hist, "AUTO_FLIP") =
            Cardinality({t \in DOMAIN a_timers : a_timers[t].puts = 1})

\* C7 witness: the timer was armed twice in succession, the second time while
\* the first was pending; both tasks have ended and exactly one AUTO_FLIP was
\* put, by the second.
C7_Witness ==
    /\ Len(a_timers) = 2
    /\ a_timers[1].replaced
    /\ a_timers[1].st = "done"
    /\ a_timers[2].st = "done"
    /\ a_timers[2].puts = 1
    /\ CountEv(a_hist, "AUTO_FLIP") = 1

\* A timer task that is armed, has not put its event and is not cancelled.
PendingTimers ==
    {t \in DOMAIN a_timers : a_timers[t].st # "done" /\ ~a_timers[t].cancel}

\* C8: at most one flip timer task is pending at any time, and it is the one
\* self.flip_task refers to.
C8_AtMostOnePending ==
    /\ Cardinality(PendingTimers) <= 1
    /\ PendingTimers \subseteq {flip_task}

\* C8 witness: a new timer is pending while the previous one, cancelled by
\* _start_flip_timer, has not finished yet.
C8_Witness ==
    /\ flip_task >= 2
    /\ flip_task \in PendingTimers
    /\ a_timers[flip_task - 1].cancel
    /\ a_timers[flip_task - 1].st # "done"

\* C9: a reducer step that processes a NEXT arms exactly one new timer (which
\* becomes self.flip_task), a reducer step that processes an AUTO_FLIP arms
\* none and leaves self.flip_task alone, and no other step but on_running
\* arms a timer.
C9_RearmOnNextOnly ==
    [][ /\ AshProcessed("NEXT") =>
                /\ Len(a_timers') = Len(a_timers) + 1
                /\ flip_task' = Len(a_timers')
                /\ a_timers'[flip_task'] = NewTimer
        /\ AshProcessed("AUTO_FLIP") =>
                /\ Len(a_timers') = Len(a_timers)
                /\ flip_task' = flip_task
        /\ Len(a_timers') # Len(a_timers) =>
                (AshProcessed("NEXT") \/ a_running' = a_running + 1) ]_vars

\* C9 witness: a NEXT that chose the pair already shown was processed while the
\* previous timer was pending, and a timer is armed for it; a later AUTO_FLIP
\* has flipped the card.
C9_Witness ==
    /\ Len(a_views) >= 2
    /\ a_hist[1] = "NEXT"
    /\ a_views[1].current = a_init.current
    /\ a_timers[1].replaced
    /\ a_hist[2] = "AUTO_FLIP"
    /\ a_views[2].showing_back
    /\ Len(a_timers) = 2

\* ---- helpers for the claims about trash/main_v3.py
\* This step is the pump handing event e to Controller._on_event.
V3Handled(e) ==
    /\ pump = "running"
    /\ bus_q # <<>>
    /\ Head(bus_q).ev = e
    /\ bus_q' = Tail(bus_q)

\* C5: when the Controller handles a FLIP while showing_back is true,
\* showing_back stays true, and only a NEXT returns the card to its front.
C5_FlipNeverTogglesBack ==
    [][ /\ (V3Handled("FLIP") /\ showing_back) => showing_back'
        /\ (showing_back /\ ~showing_back') => V3Handled("NEXT") ]_vars

\* C10: after a NEXT has been handled, a FLIP published by IntervalScheduler
\* is applied to the card only when a full interval_sec has elapsed since
\* that NEXT.
C10_NextRestartsDelay ==
    [][ (V3Handled("FLIP") /\ Head(bus_q).src = "scheduler" /\ auto_flip
            /\ v_hadNext)
          => v_since >= interval_sec ]_vars

\* ---- claims about the reducer's view refresh, the store, shutdown and
\* ---- stale timers
\* C11: a reducer step of trash/ash2.py refreshes the view only when it
\* applied a transition: the step that drops an AUTO_FLIP because the card
\* already shows its back makes no render call and assigns no image.
C11_RefreshOnlyOnTransition ==
    [][ (AshProcessed("AUTO_FLIP") /\ a_model.showing_back)
          => a_views' = a_views ]_vars

\* C12: with a non-empty store, after any sequence of NEXT, AUTO_FLIP and
\* FLIP events the current pair is an element of the store, in
\* raylib_main.py (model.current), trash/ash2.py (self.model.current) and
\* trash/main_v3.py (Controller.current).
C12_CurrentInStore ==
    /\ Len(word_pairs) > 0
    /\ prog = "raylib_main" => r_model.current \in Choices
    /\ prog = "ash2" => a_model.current \in Choices
    /\ prog = "main_v3" => current \in Choices

\* C12 witness: trash/ash2.py has replaced the pair it started with and an
\* AUTO_FLIP has turned the new card over.
C12_Witness ==
    /\ prog = "ash2"
    /\ a_model.current # a_init.current
    /\ a_model.showing_back
    /\ CountEv(a_hist, "AUTO_FLIP") > 0

\* C18: once on_close has run the pending flip timer is cancelled and the
\* reducer is stopped: no AUTO_FLIP is enqueued afterwards and self.model
\* is never replaced again, whatever is still queued or armed.
C18_CloseStopsEverything ==
    /\ [](a_closed => PendingTimers = {})
    /\ [][ a_closed => (a_hist' = a_hist /\ a_model' = a_model
                          /\ a_views' = a_views) ]_vars

\* C18 witness: the application was closed with an event still queued and
\* with the timer of the shown card armed; that timer was cancelled by
\* on_close itself and has since ended without enqueueing anything.
C18_Witness ==
    /\ a_closed
    /\ event_queue # <<>>
    /\ flip_task # 0
    /\ a_timers[flip_task].st = "done"
    /\ a_timers[flip_task].cancel
    /\ a_timers[flip_task].puts = 0
    /\ \A r \in DOMAIN a_reducers : a_reducers[r].st = "done"

\* C19: whenever an AUTO_FLIP turns the card over, it was enqueued by the
\* timer armed for the card on show (self.flip_task); the AUTO_FLIP of a
\* stale timer never flips a later card.
C19_NoStaleAutoFlip ==
    [][ (AshProcessed("AUTO_FLIP") /\ ~a_model.showing_back
            /\ a_model'.showing_back)
          => Head(event_queue).src = flip_task ]_vars

\* C13: when load_word_pairs returns an empty store, main terminates with a
\* non-zero exit status and a diagnostic message before the window is
\* opened, before any texture or font is loaded and before any Model is
\* created or any event processed.
C13_EmptyStoreExits ==
    /\ [](r_store = <<>> =>
            /\ ~r_boot.window /\ ~r_boot.assets /\ ~r_boot.model
            /\ events = <<>>
            /\ r_drawn.side = "none"
            /\ r_pc \in {"start", "exit"}
            /\ r_pc = "exit" =>
                    (r_boot.exited /\ r_boot.status # 0 /\ r_boot.diag # ""))
    /\ [][ (r_store = <<>> /\ r_pc = "start") => r_pc' = "exit" ]_vars

\* C13 witness: main has exited on an empty store, with status 1 and its
\* message, and nothing was opened, loaded or created.
C13_Witness ==
    /\ prog = "raylib_main"
    /\ r_store = <<>>
    /\ r_pc = "exit"
    /\ r_boot.exited
    /\ r_boot.status = 1
    /\ ~r_boot.window

\* ---- helpers for the claims about the loaders
\* The positions of the non-blank symbols of a text, and the text between
\* the first and the last of them.
NonBlank(t) == {i \in DOMAIN t : t[i] # " "}

Trimmed(t) ==
    IF NonBlank(t) = {} THEN <<>>
    ELSE SubSeq(t, CHOOSE i \in NonBlank(t) : \A j \in NonBlank(t) : i <= j,
                   CHOOSE i \in NonBlank(t) : \A j \in NonBlank(t) : i >= j)

\* The rows of the input with a French and an English value that are both
\* non-empty once trimmed, and the k-th of them in file order.
KeptRows ==
    {i \in DOMAIN l_rows :
        /\ l_rows[i].French.some /\ Trimmed(l_rows[i].French.text) # <<>>
        /\ l_rows[i].English.some /\ Trimmed(l_rows[i].English.text) # <<>>}

KthKept(k) ==
    CHOOSE i \in KeptRows : Cardinality({j \in KeptRows : j < i}) = k - 1

\* C14: load_word_pairs of raylib_main.py, trash/ash2.py and trash.py returns
\* exactly the rows whose trimmed French and English values are both
\* non-empty, in file order with duplicates kept, each as the WordPair of
\* the trimmed values; rows with a missing or blank value are skipped.
C14_LoadKeepsCompleteRows ==
    (prog = "loader" /\ l_done /\ l_file # "main_v3") =>
        /\ Len(l_out) = Cardinality(KeptRows)
        /\ \A k \in DOMAIN l_out :
              /\ l_out[k].fr = Trimmed(l_rows[KthKept(k)].French.text)
              /\ l_out[k].en = Trimmed(l_rows[KthKept(k)].English.text)

\* C14 witness: a file of three rows whose middle row lacks a value and
\* whose other two rows, one of them padded, were both returned.
C14_Witness ==
    /\ prog = "loader"
    /\ l_done
    /\ l_file = "trash"
    /\ Len(l_rows) = 3
    /\ KeptRows = {1, 3}
    /\ Len(l_out) = 2
    /\ l_rows[3].French.text # l_out[2].fr

\* C15: every WordPair load_csv_word_pairs of trash/main_v3.py returns has
\* a non-empty fr and a non-empty en.
C15_CsvPairsNonEmpty ==
    (prog = "loader" /\ l_done /\ l_file = "main_v3") =>
        \A k \in DOMAIN l_out : l_out[k].fr # <<>> /\ l_out[k].en # <<>>

\* ---- helpers for the claims about the renderers
\* What a CardImages shows, whichever object it is.
Content(imgs) == [front |-> imgs.front, back |-> imgs.back]

Requested == {c_requests[k] : k \in DOMAIN c_requests}

\* C16: the first CardRenderer.render call for a pair draws and stores its
\* CardImages, every later call for that pair returns that stored object
\* without drawing again, no entry is ever evicted or overwritten, and the
\* cache holds exactly one entry per distinct pair rendered.
C16_CacheStable ==
    /\ [](c_file = "main_v3" =>
            /\ c_computed = Cardinality(Requested)
            /\ {e.key : e \in c_cache} = Requested
            /\ Cardinality(c_cache) = Cardinality(Requested)
            /\ \A k \in DOMAIN c_requests :
                  /\ [key |-> c_requests[k], imgs |-> c_returned[k]] \in c_cache
                  /\ \A j \in 1..k :
                        c_requests[j] = c_requests[k]
                            => c_returned[j] = c_returned[k])
    /\ [][ c_cache \subseteq c_cache' ]_vars

\* C16 witness: a pair was rendered, then another one, then the first one
\* again, and only two CardImages were drawn.
C16_Witness ==
    /\ c_file = "main_v3"
    /\ Len(c_requests) = 3
    /\ c_requests[1] = c_requests[3]
    /\ c_requests[1] # c_requests[2]
    /\ c_computed = 2
    /\ c_returned[3].id = 1

\* C17: over one theme the cached renderer (CardRenderer.render) and the
\* uncached ones (render_card of trash.py and of trash/ash2.py) return
\* CardImages of the same content for every request, and rendering a pair
\* twice yields the same content with or without the cache.
C17_CachedEqualsUncached ==
    \A k \in DOMAIN c_requests :
        /\ Content(c_returned[k]) = Content(render_card(c_requests[k], 0))
        /\ Content(c_returned[k]) = Content(render_card_ash2(c_requests[k], 0))
        /\ \A j \in DOMAIN c_requests :
              c_requests[j] = c_requests[k]
                  => Content(c_returned[j]) = Content(c_returned[k])

\* C17 witness: the cached renderer served a repeated request from its
\* cache, after another pair had been rendered in between.
C17_Witness ==
    /\ c_file = "main_v3"
    /\ Len(c_requests) = 4
    /\ c_requests[2] = c_requests[4]
    /\ c_requests[2] # c_requests[3]
    /\ c_returned[4].id = c_returned[2].id
    /\ Content(c_returned[4]) = Content(render_card(c_requests[4], 0))

\* C20: in trash/working_main.py only the flip task started for the card
\* shown last is live: creating the task of a new card cancels the task of
\* the previous card, so at most one call_flip_card task is live.
C20_OneLiveFlipTask ==
    prog = "working_main" =>
        \A t \in DOMAIN w_tasks :
            w_tasks[t].st = "sleeping" => w_tasks[t].card = w_card

\* ---- claims about cancelling, the reducer task and enqueueing in
\* ---- trash/ash2.py
\* This step calls _cancel_flip_timer: on_running, on_close, or the reducer
\* re-arming the timer after a NEXT.
CancelCalled ==
    \/ a_running' # a_running
    \/ a_closed' # a_closed
    \/ AshProcessed("NEXT")

\* The timer slot holds nothing to cancel: no timer was ever armed, or the
\* armed one has fired or ended, or it was cancelled already.
NothingToCancel ==
    \/ flip_task = 0
    \/ a_timers[flip_task].st = "done"
    \/ a_timers[flip_task].cancel

\* A step keeps the timers and the queue as a safe cancel must: a call with
\* nothing to cancel changes no task, no call touches event_queue, and a
\* queued event only leaves the queue when the reducer takes it.
CancelSafeStep ==
    /\ (CancelCalled /\ NothingToCancel) =>
          (\A t \in DOMAIN a_timers :
              /\ a_timers'[t].st = a_timers[t].st
              /\ a_timers'[t].cancel = a_timers[t].cancel
              /\ a_timers'[t].puts = a_timers[t].puts)
    /\ CancelCalled =>
          (event_queue' = event_queue \/ AshProcessed("NEXT"))
    /\ (event_queue # <<>> /\ event_queue' # event_queue) =>
          (\/ \E e \in {"NEXT", "AUTO_FLIP"} : AshProcessed(e)
           \/ SubSeq(event_queue', 1, Len(event_queue)) = event_queue)

\* C21: _cancel_flip_timer is safe in every state: with no timer armed, or
\* the armed timer already fired or already cancelled, it changes no task
\* and raises nothing, and it never touches event_queue, so an AUTO_FLIP
\* that a fired timer has queued stays there until the reducer takes it.
C21_CancelSafe ==
    /\ [](NothingToCancel =>
            cancel_flip_timer(a_timers, flip_task) = a_timers)
    /\ [][CancelSafeStep]_vars

\* C21 witness: the reducer has re-armed the timer after a NEXT when the
\* previous timer had already fired; that timer is untouched and its
\* AUTO_FLIP is still at the head of the queue.
C21_Witness ==
    /\ prog = "ash2"
    /\ flip_task >= 2
    /\ a_timers[flip_task - 1].st = "done"
    /\ a_timers[flip_task - 1].puts = 1
    /\ ~a_timers[flip_task - 1].cancel
    /\ ~a_timers[flip_task - 1].replaced
    /\ event_queue # <<>>
    /\ Head(event_queue) = [ev |-> "AUTO_FLIP", src |-> flip_task - 1]
    /\ Len(a_views) > 0

\* The _run_loop tasks that are not done.
LiveReducers == {r \in DOMAIN a_reducers : a_reducers[r].st # "done"}

\* C22: however often on_running is invoked, at most one _run_loop task
\* that is not done exists, and every event put on event_queue is either
\* still queued or was taken and applied by that reducer exactly once.
C22_SingleReducer ==
    /\ Cardinality(LiveReducers) <= 1
    /\ LiveReducers \subseteq {reducer_task}
    /\ a_cur \in {0, reducer_task}
    /\ Len(a_views) + Len(event_queue) = Len(a_hist)

\* C22 witness: on_running was invoked twice, there is still one reducer
\* task only, and it has applied an event put after the second call.
C22_Witness ==
    /\ prog = "ash2"
    /\ a_running = 2
    /\ Len(a_reducers) = 1
    /\ LiveReducers = {1}
    /\ Len(a_timers) = 2
    /\ a_timers[2].puts = 1
    /\ Len(a_views) > 0
    /\ event_queue = <<>>

\* C23: in trash.py every message enqueued by on_flip or on_next is
\* eventually taken from self.events by the _ui_consumer loop and applied
\* to self.model, followed by a view refresh.
C23_MessagesConsumed ==
    \A n \in 1..MaxMsgs : (Len(t_events) = n) ~> (Len(t_events) < n)

\* C24: under fairness of the timer and reducer tasks, when on_running has
\* run and the window is never closed, once no further NEXT is enqueued
\* the card eventually shows its back and stays on its back for ever.
C24_EventuallyBack ==
    (<>(a_running > 0) /\ []~a_closed) => <>[](a_model.showing_back)

\* C24 witness: every NEXT the run allows has been enqueued and applied,
\* the window is open, the last timer has fired and the card is on its
\* back with nothing left to do.
C24_Witness ==
    /\ prog = "ash2"
    /\ ~a_closed
    /\ CountEv(a_hist, "NEXT") = MaxNext
    /\ a_model.showing_back
    /\ event_queue = <<>>
    /\ flip_task # 0
    /\ a_timers[flip_task].puts = 1
    /\ \A t \in DOMAIN a_timers : a_timers[t].st = "done"

\* This step is a put on event_queue: on_next, or a timer task after its
\* sleep.
AshPut == a_hist' # a_hist

\* A step of the kind C25 allows: the model and the image change only in a
\* reducer step, and a put appends its one event, changes neither model
\* nor image, leaves the timers alone when it is on_next, and lets the
\* timer task run to its end without suspending.
OnlyReducerWritesStep ==
    /\ (a_model' # a_model \/ a_image' # a_image) =>
          \E e \in {"NEXT", "AUTO_FLIP"} : AshProcessed(e)
    /\ AshPut =>
          /\ Len(a_hist') = Len(a_hist) + 1
          /\ event_queue' = Append(event_queue,
                  [ev |-> a_hist'[Len(a_hist')],
                   src |-> event_queue'[Len(event_queue')].src])
          /\ a_model' = a_model
          /\ a_image' = a_image
          /\ a_views' = a_views
          /\ flip_task' = flip_task
          /\ a_hist'[Len(a_hist')] = "NEXT" => a_timers' = a_timers
          /\ a_hist'[Len(a_hist')] = "AUTO_FLIP" =>
                \E t \in DOMAIN a_timers :
                    /\ a_timers[t].st = "woken"
                    /\ a_timers'[t].st = "done"

\* C25: self.model is replaced only inside _run_loop; on_next and a timer
\* expiry each only append one event to event_queue, whatever its length,
\* without blocking, and leave the model, the image and (on_next) the
\* timer slot unchanged.
C25_OnlyReducerWrites == [][OnlyReducerWritesStep]_vars

\* C25 witness: on_next has put a NEXT behind an AUTO_FLIP that is still
\* queued, and the model is the one startup created, never yet replaced.
C25_Witness ==
    /\ prog = "ash2"
    /\ Len(event_queue) = 2
    /\ event_queue[1].ev = "AUTO_FLIP"
    /\ event_queue[2].ev = "NEXT"
    /\ a_model = a_init
    /\ a_views = <<>>
    /\ flip_task = 1

\* ---- claims about the frame loop of raylib_main.py
\* A frame has just been drawn: main is back at the loop test.
FrameDrawn == prog = "raylib_main" /\ r_pc = "poll" /\ r_drawn.side # "none"

\* The transitions of the events of log applied to model, oldest first.
RECURSIVE FoldEvents(_, _)
FoldEvents(model, log) ==
    IF log = <<>> THEN model
    ELSE FoldEvents(
            IF Head(log).ev = "NEXT"
                THEN next_card(model, Head(log).chosen)
                ELSE flip(model),
            Tail(log))

\* C26: between two consecutive processed NEXT events, and between
\* startup and the first NEXT, at most one AUTO_FLIP is enqueued: once the
\* card is flipped no frame enqueues an AUTO_FLIP until a NEXT has been
\* processed.
C26_OneAutoFlipPerCard ==
    /\ [](r_flips <= 1)
    /\ [][ r_flips' > r_flips => (~r_model.showing_back /\ r_flips = 0) ]_vars

\* C26 witness: a frame was drawn with the card on its back, and later
\* frames have gone by without enqueueing a second AUTO_FLIP.
C26_Witness ==
    /\ FrameDrawn
    /\ r_flips = 1
    /\ r_model.showing_back
    /\ r_frame.enq = <<>>
    /\ time_since_next > flip_delay_s

\* C27: the events a frame enqueues (AUTO_FLIP first, then NEXT for a
\* click, then NEXT for the space key) are all processed in that frame in
\* that order before drawing: when a frame is drawn the queue is empty and
\* the model drawn is the fold of the transitions over the events enqueued.
C27_FrameDrainsQueue ==
    /\ (prog = "raylib_main" /\ r_pc = "poll") => events = <<>>
    /\ FrameDrawn =>
          /\ [k \in DOMAIN r_frame.log |-> r_frame.log[k].ev] = r_frame.enq
          /\ r_model = FoldEvents(r_frame.start, r_frame.log)
          /\ r_drawn = refresh_view(r_model)
    /\ \A k \in DOMAIN r_frame.enq :
          r_frame.enq[k] = "AUTO_FLIP" => k = 1

\* C27 witness: a frame enqueued AUTO_FLIP and two NEXT, processed the
\* three in that order, and was drawn.
C27_Witness ==
    /\ FrameDrawn
    /\ r_frame.enq = <<"AUTO_FLIP", "NEXT", "NEXT">>
    /\ Len(r_frame.log) = 3
    /\ r_frame.log[2].chosen # r_frame.log[3].chosen

\* C28: whenever a frame is drawn, model.showing_back is true exactly when
\* time_since_next, the frame time accumulated since the last processed
\* NEXT or since startup, has reached flip_delay_s.
C28_BackIffDelayElapsed ==
    FrameDrawn =>
        /\ r_model.showing_back <=> time_since_next >= flip_delay_s
        /\ r_drawn.side = "back" <=> time_since_next >= flip_delay_s

\* C28 witness: the delay expired in the frame of a NEXT: the frame
\* enqueued AUTO_FLIP and NEXT, and was drawn on the front with the clock
\* at zero.
C28_Witness ==
    /\ FrameDrawn
    /\ r_frame.enq = <<"AUTO_FLIP", "NEXT">>
    /\ r_drawn.side = "front"
    /\ time_since_next = 0

\* This step is the pump taking an event off the bus and delivering it.
Delivered == Len(bus_q') < Len(bus_q)

\* Handling a FLIP leaves the rendered artifacts alone: the pair, the cache
\* and the two built views are the same, and the slot shows one of them.
FlipKeepsViewsStep ==
    (Delivered /\ v_last'.evt.ev = "FLIP") =>
        /\ current' = current
        /\ cache' = cache
        /\ vp_views' = vp_views
        /\ slot'.pair = vp_views
        /\ slot'.side = slot.side \/ slot'.side = (IF showing_back' THEN "back"
                                                                   ELSE "front")

\* Handling a NEXT renders the new pair and shows it.
NextRendersStep ==
    (Delivered /\ v_last'.evt.ev = "NEXT") =>
        /\ cache' = cache \cup {current'}
        /\ vp_views' = current'
        /\ slot' = [pair |-> current', side |-> "front"]

\* C29: the Controller calls renderer.render once at construction and once
\* for every NEXT it handles, and never for a FLIP; a FLIP only changes which
\* of the two views already built is in the slot.
C29_RenderOnlyOnNext ==
    /\ [](prog = "main_v3" =>
            v_last.renders = (IF v_last.evt.ev = "FLIP" THEN 0 ELSE 1))
    /\ [][FlipKeepsViewsStep /\ NextRendersStep]_vars

\* C29 witness: with auto_flip on, a FLIP was handled after a NEXT and
\* turned the card to its back.
C29_Witness ==
    /\ prog = "main_v3"
    /\ v_hadNext
    /\ v_last.evt.ev = "FLIP"
    /\ v_last.renders = 0
    /\ showing_back
    /\ slot = [pair |-> current, side |-> "back"]

\* A step changes the bus only by a publish, which appends one event (the
\* oldest button task's, or the scheduler's FLIP), or by a delivery, which
\* takes the oldest event and hands it to Controller._on_event.
BusFifoStep ==
    \/ /\ bus_q' = bus_q
       /\ v_last' = v_last
       /\ pub_tasks' = pub_tasks
            \/ \E e \in [ev : {"NEXT", "FLIP"}, src : {"button"}] :
                    pub_tasks' = Append(pub_tasks, e)
    \/ /\ pub_tasks # <<>>
       /\ bus_q' = Append(bus_q, Head(pub_tasks))
       /\ pub_tasks' = Tail(pub_tasks)
       /\ v_last' = v_last
    \/ /\ bus_q' = Append(bus_q, [ev |-> "FLIP", src |-> "scheduler"])
       /\ pub_tasks' = pub_tasks
       /\ v_last' = v_last
    \/ /\ bus_q # <<>>
       /\ bus_q' = Tail(bus_q)
       /\ pub_tasks' = pub_tasks
       /\ v_last'.evt = Head(bus_q)

\* C30: every event published on the AsyncEventBus is delivered by pump to
\* the subscribed handler once, in the order of the publishes: no event is
\* dropped, duplicated or reordered.
C30_BusDeliversInOrder == [][BusFifoStep]_vars

\* C30 witness: a NEXT and a FLIP were published in that order; the pump
\* has delivered the NEXT and the FLIP is the one event left.
C30_Witness ==
    /\ prog = "main_v3"
    /\ pump = "running"
    /\ v_last.evt = [ev |-> "NEXT", src |-> "button"]
    /\ bus_q = <<[ev |-> "FLIP", src |-> "button"]>>
    /\ pub_tasks = <<>>

\* C31: with an empty corpus Milo.startup fails before the main window is
\* shown and before the pump and scheduler tasks are created: the UI is
\* never partially started.
C31_NoPartialStartOnEmptyCorpus ==
    (prog = "main_v3" /\ v_corpus = <<>>) =>
        /\ ~v_boot.window
        /\ ~v_boot.tasks
        /\ pump = "parked"
        /\ sched = "parked"

\* C32: RandomSelection.next returns a pair different from current whenever
\* the corpus holds at least two distinct pairs, whatever random.choice
\* returns: a handled NEXT always changes Controller.current.
C32_NextPicksDifferentPair ==
    [][(Delivered /\ v_last'.evt.ev = "NEXT"
            /\ Cardinality({v_corpus[i] : i \in DOMAIN v_corpus}) >= 2)
        => current' # current]_vars

\* C33: update(model, msg, word_pairs) of trash.py is deterministic: calls
\* with the same model, message and word_pairs return equal models, for the
\* messages flip, next and any other string.
C33_UpdateDeterministic ==
    prog = "update" =>
        \A i, j \in DOMAIN u_outs : u_outs[i] = u_outs[j]

\* C34: rendering never changes the shared template images: after any
\* sequence of calls of CardRenderer.render or of either render_card, the
\* theme's base front and base back are as they were loaded, because the
\* texts are drawn on copies.
C34_TemplatesUnchanged ==
    prog = "renderer" => c_theme = LoadedTheme

\* C34 witness: the CardRenderer has drawn the cards of two pairs and
\* answered a third call from its cache; the templates are as loaded.
C34_Witness ==
    /\ prog = "renderer"
    /\ c_file = "main_v3"
    /\ c_computed = 2
    /\ Len(c_requests) = 3
    /\ c_theme = LoadedTheme

\* The card CardRenderer.render draws for a pair when its cache is empty.
Drawn(words) == CardRenderer_render({}, words, 1).imgs

\* C35: nothing CardRenderer.render returns is aliased with a cache entry:
\* whatever callers drew on the artifacts they were given, a render of a
\* pair returns the card as the renderer draws it.
C35_ReturnedNotAliased ==
    [][(prog = "renderer" /\ c_file = "main_v3"
            /\ Len(c_requests') = Len(c_requests) + 1)
        => LET n == Len(c_requests') IN
            /\ c_returned'[n].front = Drawn(c_requests'[n]).front
            /\ c_returned'[n].back = Drawn(c_requests'[n]).back]_vars

\* C36: after construction and after every handled event the viewport
\* agrees with the Controller: TogaViewPort._showing_back equals
\* Controller.showing_back, the two views are built from Controller.current,
\* and the slot shows the back view or the front view accordingly.
C36_ViewportFollowsController ==
    prog = "main_v3" =>
        /\ vp_showing_back = showing_back
        /\ vp_views = current
        /\ slot = [pair |-> current,
                   side |-> IF showing_back THEN "back" ELSE "front"]

\* C36 witness: the scheduler's FLIP was handled after a NEXT, and the slot
\* shows the back of the current pair.
C36_Witness ==
    /\ prog = "main_v3"
    /\ v_hadNext
    /\ v_last.evt = [ev |-> "FLIP", src |-> "scheduler"]
    /\ vp_showing_back
    /\ slot.side = "back"
    /\ slot.pair = current

\* With auto_flip off, a handled FLIP changes nothing the user sees, and a
\* handled NEXT is applied as ever.
AutoFlipOffStep ==
    (~auto_flip /\ Delivered) =>
        IF Head(bus_q).ev = "FLIP"
            THEN UNCHANGED <<current, showing_back, vp_showing_back,
                             vp_views, slot>>
            ELSE /\ showing_back' = FALSE
                 /\ vp_showing_back' = FALSE
                 /\ vp_views' = current'
                 /\ slot' = [pair |-> current', side |-> "front"]
                 /\ v_hadNext'

\* C37: when FlipPolicy.auto_flip is false the IntervalScheduler never
\* publishes an event, and every FLIP that reaches the Controller, the Flip
\* button's included, leaves current, showing_back and the viewport
\* unchanged, while a NEXT is still applied.
C37_AutoFlipOffIgnoresFlip ==
    /\ []((prog = "main_v3" /\ ~auto_flip) =>
            /\ sched \in {"created", "done"}
            /\ \A i \in DOMAIN bus_q : bus_q[i].src # "scheduler"
            /\ v_last.evt.src # "scheduler")
    /\ [][AutoFlipOffStep]_vars

\* C37 witness: with auto_flip off the scheduler has returned, a NEXT was
\* applied, and the Flip button's FLIP was handled with the card still on
\* its front.
C37_Witness ==
    /\ prog = "main_v3"
    /\ ~auto_flip
    /\ sched = "done"
    /\ v_hadNext
    /\ v_last.evt = [ev |-> "FLIP", src |-> "button"]
    /\ ~showing_back
    /\ slot.side = "front"

====
